---- MODULE Spec2Model ----
(***************************************************************************)
(* A model of the jisp interpreter (flintwinters/jisp, the revision with   *)
(* call frames, history and spawned programs): JSON values, the program    *)
(* record, the dispatcher and its nested frames, the reflective operations *)
(* run / step / undo with the JSON-Patch history, and spawn / await with   *)
(* the process table.                                                      *)
(***************************************************************************)
EXTENDS Integers, Sequences, FiniteSets, TLC

(***************************************************************************)
(* JSON values (Go's interface{} after json.Unmarshal).  Every value is a  *)
(* record with the tag t of its JSON type and one field per type (b, n, s, *)
(* a, o), so that any two values are comparable.  An object's o is its set *)
(* of <<key, value>> pairs (keys unique), an array's a is a sequence.  A   *)
(* number (float64) is the fraction n / d in lowest terms, d = 1 for the   *)
(* integers.                                                               *)
(***************************************************************************)
Value(t, b, n, s, a, o) == [t |-> t, b |-> b, n |-> n, d |-> 1, s |-> s, a |-> a, o |-> o]

Null == Value("null", FALSE, 0, "", <<>>, {})

Num(n) == Value("num", FALSE, n, "", <<>>, {})

Abs(x) == IF x < 0 THEN 0 - x ELSE x

RECURSIVE GCD(_, _)
GCD(x, y) == IF y = 0 THEN x ELSE GCD(y, x % y)

\* the number n / d (d # 0), in lowest terms with a positive denominator
Rat(n, d) ==
    LET g == GCD(Abs(n), Abs(d))
    IN  [Num((IF d < 0 THEN 0 - n ELSE n) \div g) EXCEPT !.d = Abs(d) \div g]

\* the integer part of n / d (d > 0), towards zero
Trunc(n, d) == IF n < 0 THEN 0 - ((0 - n) \div d) ELSE n \div d

\* float64 arithmetic on fractions; math.Mod(x, y) is x - y * trunc(x / y)
RatAdd(x, y) == Rat(x.n * y.d + y.n * x.d, x.d * y.d)

RatSub(x, y) == Rat(x.n * y.d - y.n * x.d, x.d * y.d)

RatMul(x, y) == Rat(x.n * y.n, x.d * y.d)

RatDiv(x, y) == Rat(x.n * y.d, x.d * y.n)

RatMod(x, y) == RatSub(x, RatMul(y, Num(Trunc(RatDiv(x, y).n, RatDiv(x, y).d))))

Str(s) == Value("str", FALSE, 0, s, <<>>, {})

Bool(b) == Value("bool", b, 0, "", <<>>, {})

Arr(a) == Value("arr", FALSE, 0, "", a, {})

Obj(o) == Value("obj", FALSE, 0, "", <<>>, o)

\* no value: a field json.Marshal leaves out (omitempty), the top of an empty stack
Omitted == Value("omitted", FALSE, 0, "", <<>>, {})

\* A Go map[string]interface{} as its set of <<key, value>> pairs.
MapKeys(m) == {kv[1] : kv \in m}

MapHas(m, k) == k \in MapKeys(m)

MapGet(m, k) == (CHOOSE kv \in m : kv[1] = k)[2]

MapSet(m, k, x) == {kv \in m : kv[1] # k} \cup {<<k, x>>}

MapDelete(m, k) == {kv \in m : kv[1] # k}

EmptyMap == {}

Last(s) == s[Len(s)]

Front(s) == SubSeq(s, 1, Len(s) - 1)

(***************************************************************************)
(* Operations, call frames, errors, programs.                              *)
(***************************************************************************)
\* JispOperation{Name, Args}
Op(name, args) == [Name |-> name, Args |-> args]

\* parseRawOperation / parseJispOps: a body literal [[name, arg, ...], ...]
\* becomes a list of operations.
parseRawOperation(rawOp) == Op(rawOp.a[1].s, SubSeq(rawOp.a, 2, Len(rawOp.a)))

parseJispOps(raw) == [i \in 1..Len(raw.a) |-> parseRawOperation(raw.a[i])]

\* JispOperation.MarshalJSON: [name, args...]
MarshalOp(op) == Arr(<<Str(op.Name)>> \o op.Args)

MarshalOps(ops) == Arr([i \in 1..Len(ops) |-> MarshalOp(ops[i])])

\* The map a frame's Variables field refers to.  Go maps are references:
\*   "global"  the frame holds the program's own Variables map
\*   "parent"  the frame holds the map of the frame below it
\*   "own"     the frame holds a map of its own (field Own)
\*   "nil"     the field is a nil map (absent in the JSON it was read from)
CallFrame(ops, ip, basePath, ref, own) ==
    [Ops |-> ops, Ip |-> ip, BasePath |-> basePath, VarsRef |-> ref, Own |-> own]

RECURSIVE OwnerIdx(_, _)
OwnerIdx(cs, i) == IF cs[i].VarsRef = "parent" THEN OwnerIdx(cs, i - 1) ELSE i

\* frame.Variables is a nil map
FrameVarsNil(p, i) == p.CallStack[OwnerIdx(p.CallStack, i)].VarsRef = "nil"

\* the content of frame.Variables (reading a nil map finds nothing)
FrameVars(p, i) ==
    LET f == p.CallStack[OwnerIdx(p.CallStack, i)]
    IN  CASE f.VarsRef = "global" -> p.Variables
          [] f.VarsRef = "own" -> f.Own
          [] OTHER -> EmptyMap

\* frame.Variables[k] = x, for a non-nil map
FrameVarsSet(p, i, k, x) ==
    LET j == OwnerIdx(p.CallStack, i)
    IN  IF p.CallStack[j].VarsRef = "global"
        THEN [p EXCEPT !.Variables = MapSet(@, k, x)]
        ELSE [p EXCEPT !.CallStack[j].Own = MapSet(@, k, x)]

NoError == <<>>

currentFrame(p) == Len(p.CallStack)

\* currentInstructionPath: BasePath ++ [Ip] of the top frame
currentInstructionPath(p) ==
    IF p.CallStack = <<>> THEN <<>>
    ELSE Append(Last(p.CallStack).BasePath, Num(Last(p.CallStack).Ip))

FramePath(f) == Append(f.BasePath, Num(f.Ip))

\* A frame read from JSON: UnmarshalJSON cuts its BasePath out of the decoded
\* Ip array, so the slice has spare capacity and append(BasePath, Ip) writes
\* the ip in place.  Such a frame is a root frame whose map is not the
\* program's; the frames the interpreter pushes have a BasePath of exact
\* capacity.
FromJSON(f) == Len(f.BasePath) = 1 /\ f.VarsRef \in {"own", "nil"}

\* the copy of frame i that newError takes: the struct is copied, the map is
\* the frame's (the program's Variables, or the content of a map no live
\* frame changes once the error is set)
SnapshotFrame(p, i) ==
    LET f == p.CallStack[i]
        o == p.CallStack[OwnerIdx(p.CallStack, i)]
    IN  CallFrame(f.Ops, f.Ip, f.BasePath, o.VarsRef, o.Own)

\* newError: the JispError of the current program state.  shared: the
\* InstructionPointer slice is the array of the current frame's BasePath
\* (currentInstructionPath appended in place).
newError(p, op, message) ==
    << [operation_name |-> op.Name,
        instruction_pointer |-> currentInstructionPath(p),
        shared |-> p.CallStack # <<>> /\ FromJSON(Last(p.CallStack)),
        message |-> message,
        stack_snapshot |-> p.Stack,
        call_stack_snapshot |-> [i \in 1..Len(p.CallStack) |-> SnapshotFrame(p, i)],
        variables_snapshot |-> p.Variables] >>

\* A program as parsed from a document holding code (and optionally a stack,
\* variables and flags) followed by ensureInitialized.  trace is bookkeeping
\* of the model: the instructions executed since the program was last parsed.
NewProgram(code, stack, vars, saveHistory, debug, breakpoints) ==
    [PID |-> 0, Stack |-> stack, Variables |-> vars, Code |-> code,
     CallStack |-> <<>>, Error |-> NoError, History |-> <<>>,
     SaveHistory |-> saveHistory, Debug |-> debug, Breakpoints |-> breakpoints,
     Running |-> FALSE, trace |-> <<>>]

Push(p, x) == [p EXCEPT !.Stack = Append(@, x)]

\* a handler's result: the program and what the handler returned
\* (sig: "ok", "error" with msg, a signal, or "panic" or "hang" when it
\* returned nothing)
Ret(p, sig, msg) == [p |-> p, sig |-> sig, msg |-> msg]

Ok(p) == Ret(p, "ok", "")

Fail(p, msg) == Ret(p, "error", msg)

Signals == {"break", "continue", "return", "exit", "breakpoint"}

\* how a handler ends when it does not return: a Go runtime panic, which
\* nothing recovers, or a loop that never ends
Unwinding == {"panic", "hang"}


(***************************************************************************)
(* Stack helpers.                                                          *)
(***************************************************************************)
\* popValue: the error message is the one of the calling operation
popValue(p, underflowMsg) ==
    IF Len(p.Stack) < 1 THEN Fail(p, underflowMsg)
    ELSE [p |-> [p EXCEPT !.Stack = Front(@)], sig |-> "ok", msg |-> "", val |-> Last(p.Stack)]

\* pop[T]: the value is removed before its type is checked
popTyped(p, type, underflowMsg, typeMsg) ==
    IF Len(p.Stack) < 1 THEN Fail(p, underflowMsg)
    ELSE IF Last(p.Stack).t # type THEN Fail([p EXCEPT !.Stack = Front(@)], typeMsg)
    ELSE [p |-> [p EXCEPT !.Stack = Front(@)], sig |-> "ok", msg |-> "", val |-> Last(p.Stack)]

\* popx: the n topmost values, deepest first, or failure with the stack as it was
popx(p, n) ==
    IF Len(p.Stack) < n THEN [ok |-> FALSE, p |-> p, values |-> <<>>]
    ELSE [ok |-> TRUE,
          p |-> [p EXCEPT !.Stack = SubSeq(@, 1, Len(@) - n)],
          values |-> SubSeq(p.Stack, Len(p.Stack) - n + 1, Len(p.Stack))]

(***************************************************************************)
(* Scoped variables.                                                       *)
(***************************************************************************)
\* getValueForPath, string form: frames from the innermost outwards, then the
\* program's Variables.  Returns <<found, value>>.
RECURSIVE lookupFrames(_, _, _)
lookupFrames(p, i, name) ==
    IF i = 0
    THEN IF MapHas(p.Variables, name) THEN <<TRUE, MapGet(p.Variables, name)>>
         ELSE <<FALSE, Null>>
    ELSE IF MapHas(FrameVars(p, i), name) THEN <<TRUE, MapGet(FrameVars(p, i), name)>>
    ELSE lookupFrames(p, i - 1, name)

getValueForPath(p, name) == lookupFrames(p, Len(p.CallStack), name)

\* setValueForPath, string form: the current frame's map, or the program's
\* Variables when there is no frame.  Assigning into a nil map is a Go
\* runtime panic.
setValueForPath(p, name, value) ==
    IF currentFrame(p) # 0
    THEN IF FrameVarsNil(p, currentFrame(p))
         THEN Ret(p, "panic", "assignment to entry in nil map")
         ELSE Ok(FrameVarsSet(p, currentFrame(p), name, value))
    ELSE Ok([p EXCEPT !.Variables = MapSet(@, name, value)])

\* navigateToParent and the final segment of getValueByPath, taken together:
\* the value at path inside current, <<found, value>>.  A string segment
\* indexes a map, a number an array.
RECURSIVE getIn(_, _)
getIn(current, path) ==
    IF path = <<>> THEN <<TRUE, current>>
    ELSE LET key == path[1]
             rest == SubSeq(path, 2, Len(path))
         IN  CASE key.t = "str" /\ current.t = "obj" /\ MapHas(current.o, key.s) ->
                     getIn(MapGet(current.o, key.s), rest)
               [] key.t = "num" /\ current.t = "arr" /\ key.n >= 0 /\ key.n < Len(current.a) ->
                     getIn(current.a[key.n + 1], rest)
               [] OTHER -> <<FALSE, Null>>

\* getValueByPath: an array path is resolved in the program's Variables only
getValueByPath(p, path) ==
    IF path = <<>> \/ path[1].t # "str" THEN <<FALSE, Null>>
    ELSE getIn(Obj(p.Variables), path)

\* navigateToParent with autoVivify and the final assignment of
\* setValueForPath, taken together: current with value stored at path,
\* [ok, v].  A missing map key on the way is created as an empty map.
RECURSIVE setIn(_, _, _)
setIn(current, path, value) ==
    LET key == path[1]
        rest == SubSeq(path, 2, Len(path))
    IN  CASE key.t = "str" /\ current.t = "obj" ->
                IF rest = <<>> THEN [ok |-> TRUE, v |-> Obj(MapSet(current.o, key.s, value))]
                ELSE LET next == IF MapHas(current.o, key.s) THEN MapGet(current.o, key.s)
                                 ELSE Obj(EmptyMap)
                         r == setIn(next, rest, value)
                     IN  [ok |-> r.ok, v |-> Obj(MapSet(current.o, key.s, r.v))]
          [] key.t = "num" /\ current.t = "arr" /\ key.n >= 0 /\ key.n < Len(current.a) ->
                IF rest = <<>>
                THEN [ok |-> TRUE, v |-> Arr([current.a EXCEPT ![key.n + 1] = value])]
                ELSE LET r == setIn(current.a[key.n + 1], rest, value)
                     IN  [ok |-> r.ok, v |-> Arr([current.a EXCEPT ![key.n + 1] = r.v])]
          [] OTHER -> [ok |-> FALSE, v |-> current]

\* setValueForPath, array form: the path is resolved in the program's
\* Variables, whatever the current frame
setValueByPath(p, path, value) ==
    IF path = <<>> THEN Fail(p, "set error: path array cannot be empty")
    ELSE IF path[1].t # "str"
    THEN Fail(p, "set error: first element of path must be a string variable name")
    ELSE LET r == setIn(Obj(p.Variables), path, value)
             q == [p EXCEPT !.Variables = r.v.o]
         IN  IF r.ok THEN Ok(q) ELSE Fail(q, "set error: invalid path")

(***************************************************************************)
(* The dispatcher.                                                         *)
(***************************************************************************)
\* the operation table (init), as far as this model covers it
operations ==
    {"push", "pop", "set", "get", "add", "sub", "mul", "div", "mod", "raise", "noop", "if", "try", "for", "while",
     "map", "filter", "reduce", "join", "call", "assert", "slice", "eq", "range", "concat", "not", "sort", "return", "break", "continue", "exit", "breakpoint"}

\* pathsEqual: element-wise, numbers by value
pathsEqual(p1, p2) == p1 = p2

IsOpsBlock(raw) ==
    /\ raw.t = "arr"
    /\ \A i \in 1..Len(raw.a) :
          /\ raw.a[i].t = "arr"
          /\ Len(raw.a[i].a) > 0
          /\ raw.a[i].a[1].t = "str"

RECURSIVE executeSingleInstruction(_)
RECURSIVE ExecuteFrame(_, _, _, _, _)
RECURSIVE frameLoop(_, _, _)
RECURSIVE handler(_, _)
RECURSIVE forItems(_, _, _, _, _)
RECURSIVE whileLoop(_, _, _)
RECURSIVE collectItems(_, _, _, _, _, _, _)
RECURSIVE reduceItems(_, _, _, _, _)
RECURSIVE joinItems(_, _, _, _, _, _, _)

\* executeOperationsWithPathSegment
executeOperationsWithPathSegment(p, ops, segment, useParentScope) ==
    ExecuteFrame(p, ops, Append(currentInstructionPath(p), segment), useParentScope, -1)

pushOp(p, op) ==
    IF Len(op.Args) = 0 THEN Fail(p, "push error: no argument provided")
    ELSE Ok(Push(p, op.Args[1]))

\* popOp and JispProgram.Pop
popOp(p, op) ==
    IF Len(op.Args) = 0 THEN Fail(p, "pop error: no argument provided for field name")
    ELSE IF op.Args[1].t # "str" THEN Fail(p, "pop error: expected string argument for fieldName")
    ELSE LET r == popValue(p, "stack underflow for pop: expected 1 value")
         IN  IF r.sig # "ok" THEN r
             ELSE Ok([r.p EXCEPT !.Variables = MapSet(@, op.Args[1].s, r.val)])

\* setValueForPath of a path value, string or array
setPath(p, pathVal, value) ==
    CASE pathVal.t = "str" -> setValueForPath(p, pathVal.s, value)
      [] pathVal.t = "arr" -> setValueByPath(p, pathVal.a, value)
      [] OTHER -> Fail(p, "set error: expected a string or an array path")

\* setOp with several arguments: values[i] goes to the path args[i], from i on
RECURSIVE setArgs(_, _, _, _)
setArgs(p, args, values, i) ==
    IF i > Len(args) THEN Ok(p)
    ELSE LET r == setPath(p, args[i], values[i])
         IN  IF r.sig # "ok" THEN r ELSE setArgs(r.p, args, values, i + 1)

\* setOp: without arguments the value and, above it, the path are popped;
\* with one argument the value is; with more, one value for each path
setOp(p, op) ==
    IF Len(op.Args) = 1
    THEN LET r == popValue(p, "stack underflow for set: expected 1 value")
         IN  IF r.sig # "ok" THEN r ELSE setPath(r.p, op.Args[1], r.val)
    ELSE LET n == IF Len(op.Args) = 0 THEN 2 ELSE Len(op.Args)
         IN  IF ~popx(p, n).ok
             THEN Fail(p, "stack underflow for set: expected " \o ToString(n) \o " values")
             ELSE IF Len(op.Args) = 0
             THEN setPath(popx(p, 2).p, popx(p, 2).values[2], popx(p, 2).values[1])
             ELSE setArgs(popx(p, n).p, op.Args, popx(p, n).values, 1)

\* getValueForPath of a path value, string or array, pushed if found
getPath(p, pathVal, q) ==
    IF pathVal.t \notin {"str", "arr"}
    THEN Fail(q, "get error: expected a string or an array path")
    ELSE LET g == IF pathVal.t = "str" THEN getValueForPath(p, pathVal.s)
                  ELSE getValueByPath(p, pathVal.a)
         IN  IF g[1] THEN Ok(Push(q, g[2])) ELSE Fail(q, "get error: variable not found")

\* getOp with arguments: the paths in order, from argument i on
RECURSIVE getArgs(_, _, _)
getArgs(p, args, i) ==
    IF i > Len(args) THEN Ok(p)
    ELSE LET r == getPath(p, args[i], p)
         IN  IF r.sig # "ok" THEN r ELSE getArgs(r.p, args, i + 1)

\* getOp: without arguments the path is popped from the stack
getOp(p, op) ==
    IF Len(op.Args) = 0
    THEN LET r == popValue(p, "stack underflow for get: expected 1 value")
         IN  IF r.sig # "ok" THEN r ELSE getPath(r.p, r.val, r.p)
    ELSE getArgs(p, op.Args, 1)

\* (variant: the operands the other way round)
binaryResultSwapped(opName, a, b) ==
    CASE opName = "add" -> RatAdd(b, a)
      [] opName = "sub" -> RatSub(b, a)
      [] opName = "mul" -> RatMul(b, a)
      [] opName = "div" -> IF a.n = 0 THEN Omitted ELSE RatDiv(b, a)
      [] opName = "mod" -> IF a.n = 0 THEN Omitted ELSE RatMod(b, a)

\* the functions Add, Sub, Mul, Div and Mod give to applyBinaryOp: the
\* result, Omitted when the function returns an error
binaryResult(opName, a, b) ==
    CASE opName = "add" -> RatAdd(a, b)
      [] opName = "sub" -> RatSub(a, b)
      [] opName = "mul" -> RatMul(a, b)
      [] opName = "div" -> IF b.n = 0 THEN Omitted ELSE RatDiv(a, b)
      [] opName = "mod" -> IF b.n = 0 THEN Omitted ELSE RatMod(a, b)

\* (variant: popTwo without its check of the stack's length)
applyBinaryOpUnchecked(p, opName) ==
    LET b == popTyped(p, "num", "stack underflow for " \o opName \o ": expected 2 values",
                      opName \o " error: expected a float64 on stack")
    IN  IF b.sig # "ok" THEN b
        ELSE LET a == popTyped(b.p, "num", "stack underflow for " \o opName \o ": expected 2 values",
                               opName \o " error: expected a float64 on stack")
             IN  IF a.sig # "ok" THEN a
                 ELSE IF binaryResult(opName, a.val, b.val) = Omitted
                 THEN Fail(a.p, opName \o " error: division by zero")
                 ELSE Ok(Push(a.p, binaryResult(opName, a.val, b.val)))

\* popTwo[float64] and applyBinaryOp: b is popped first, then a
applyBinaryOp(p, opName) ==
    IF Len(p.Stack) < 2 THEN Fail(p, "stack underflow for " \o opName \o ": expected 2 values")
    ELSE LET b == popTyped(p, "num", "", opName \o " error: expected a float64 on stack")
         IN  IF b.sig # "ok" THEN b
             ELSE LET a == popTyped(b.p, "num", "", opName \o " error: expected a float64 on stack")
                  IN  IF a.sig # "ok" THEN a
                      ELSE IF binaryResult(opName, a.val, b.val) = Omitted
                      THEN Fail(a.p, opName \o " error: " \o
                                     (IF opName = "div" THEN "division by zero"
                                      ELSE "modulo by zero"))
                      ELSE Ok(Push(a.p, binaryResult(opName, a.val, b.val)))

\* makeNoArgsHandler
makeNoArgsHandler(p, op, r) ==
    IF Len(op.Args) > 0 THEN Fail(p, op.Name \o " error: expected 0 arguments") ELSE r

\* Add, Sub, Mul, Div, Mod
arithmeticOp(p, op) == makeNoArgsHandler(p, op, applyBinaryOp(p, op.Name))

addOp(p, op) == arithmeticOp(p, op)

raiseOp(p, op) ==
    LET r == popTyped(p, "str", "stack underflow for raise: expected 1 value",
                      "raise error: expected a string on stack")
    IN  IF r.sig # "ok" THEN r
        ELSE Ok([r.p EXCEPT !.Error = newError(r.p, op, r.val.s)])

\* assertOp: a false condition sets the error slot, with the message given
\* as a string argument if there is one
assertOp(p, op) ==
    LET r == popValue(p, "stack underflow for assert: expected 1 value")
    IN  IF r.sig # "ok" THEN r
        ELSE IF r.val.t # "bool" THEN Fail(r.p, "assert error: expected a boolean on the stack")
        ELSE IF r.val.b THEN Ok(r.p)
        ELSE Ok([r.p EXCEPT !.Error =
                    newError(r.p, op, IF Len(op.Args) > 0 /\ op.Args[1].t = "str"
                                      THEN op.Args[1].s ELSE "assertion failed")])

\* makeConstantErrorHandler: noop, break, continue; exitOp; breakpointOp
constantHandler(p, op, sig) ==
    IF Len(op.Args) > 0 THEN Fail(p, "error: expected 0 arguments")
    ELSE Ret(p, sig, "")

returnOp(p, op) ==
    IF Len(op.Args) > 0 THEN Fail(p, "return error: expected 0 arguments")
    ELSE IF Len(p.CallStack) = 1
         THEN Fail(p, "return error: return can only be called within a function execution context")
    ELSE Ret(p, "return", "")

\* ifOp and JispProgram.If
ifOp(p, op) ==
    IF Len(op.Args) = 0 \/ Len(op.Args) > 2
    THEN Fail(p, "if error: expected 1 or 2 array arguments for then/else bodies")
    ELSE IF \E i \in 1..Len(op.Args) : ~IsOpsBlock(op.Args[i])
    THEN Fail(p, "if error in body")
    ELSE LET c == popValue(p, "if error: stack underflow for if: expected 1 value")
         IN  IF c.sig # "ok" THEN c
             ELSE IF c.val.t # "bool"
             THEN Fail(c.p, "if error: expected boolean condition on stack")
             ELSE IF c.val.b
             THEN executeOperationsWithPathSegment(c.p, parseJispOps(op.Args[1]), Num(0), TRUE)
             ELSE IF Len(op.Args) = 2
             THEN executeOperationsWithPathSegment(c.p, parseJispOps(op.Args[2]), Num(1), TRUE)
             ELSE Ok(c.p)

\* handleCaughtError: the message goes to the program's Variables, then the
\* catch body runs and whatever it returns is dropped (a panic is not a
\* return value and still unwinds).
handleCaughtError(p, caughtErr, catchVar, hasCatch, catchBody) ==
    LET q == [p EXCEPT !.Variables = MapSet(@, catchVar, Str(caughtErr.message))]
    IN  IF hasCatch
        THEN LET r == executeOperationsWithPathSegment(q, catchBody, Num(2), TRUE)
             IN  IF r.sig \in Unwinding THEN r ELSE Ok(r.p)
        ELSE Ok(q)

\* JispProgram.Try
Try(p, tryBody, catchVar, hasCatch, catchBody) ==
    LET r == executeOperationsWithPathSegment(p, tryBody, Num(0), TRUE)
    IN  IF r.sig # "ok" THEN r
        ELSE IF r.p.Error # NoError
        THEN handleCaughtError([r.p EXCEPT !.Error = NoError], r.p.Error[1],
                               catchVar, hasCatch, catchBody)
        ELSE Ok(r.p)

tryOp(p, op) ==
    IF Len(op.Args) < 2 \/ Len(op.Args) > 3
    THEN Fail(p, "try error: expected 2 or 3 arguments")
    ELSE IF ~IsOpsBlock(op.Args[1]) THEN Fail(p, "try error in 'try_body'")
    ELSE IF op.Args[2].t # "str" THEN Fail(p, "try error: expected catch_var to be a string")
    ELSE IF Len(op.Args) = 3 /\ ~IsOpsBlock(op.Args[3]) THEN Fail(p, "try error in 'catch_body'")
    ELSE Try(p, parseJispOps(op.Args[1]), op.Args[2].s, Len(op.Args) = 3,
             IF Len(op.Args) = 3 THEN parseJispOps(op.Args[3]) ELSE <<>>)

\* (variant: continue is passed on as well)
executeLoopBodyPassing(p, bodyOps, segment) ==
    executeOperationsWithPathSegment(p, bodyOps, segment, TRUE)

\* executeLoopBody: continue ends the iteration, everything else is passed on
executeLoopBody(p, bodyOps, segment) ==
    LET r == executeOperationsWithPathSegment(p, bodyOps, segment, TRUE)
    IN  IF r.sig = "continue" THEN Ok(r.p) ELSE r

\* JispProgram.For over an array: items[i..]
forItems(p, loopVar, items, i, bodyOps) ==
    IF i > Len(items) THEN Ok(p)
    ELSE LET q == [p EXCEPT !.Variables = MapSet(@, loopVar, items[i])]
             r == executeLoopBody(q, bodyOps, Num(2))
         IN  IF r.sig = "break" THEN Ok(r.p)
             ELSE IF r.sig # "ok" THEN r
             ELSE forItems(r.p, loopVar, items, i + 1, bodyOps)

\* forOp with an array collection, literal or named by a variable
forOp(p, op) ==
    IF Len(op.Args) # 3 THEN Fail(p, "for error: expected 3 arguments")
    ELSE IF op.Args[1].t # "str" THEN Fail(p, "for error: expected loop_var to be a string")
    ELSE LET g == IF op.Args[2].t = "str" THEN getValueForPath(p, op.Args[2].s)
                  ELSE <<TRUE, op.Args[2]>>
         IN  IF ~g[1] THEN Fail(p, "for error: failed to get collection variable")
             ELSE IF ~IsOpsBlock(op.Args[3]) THEN Fail(p, "for error in 'body_operations'")
             ELSE IF g[2].t # "arr" THEN Fail(p, "for error: unsupported collection type")
             ELSE forItems(p, op.Args[1].s, g[2].a, 1, parseJispOps(op.Args[3]))

\* the loop of whileOp.  An iteration that leaves the program as it found it
\* is followed by the same iteration for ever: the handler never returns
\* ("hang").
whileLoop(p, conditionPath, bodyOps) ==
    LET g == getValueForPath(p, conditionPath)
    IN  IF ~g[1] THEN Fail(p, "while error: failed to get condition variable")
        ELSE IF g[2].t # "bool" THEN Fail(p, "while error: expected boolean condition")
        ELSE IF ~g[2].b THEN Ok(p)
        ELSE LET r == executeOperationsWithPathSegment(p, bodyOps, Num(1), TRUE)
             IN  CASE r.sig = "break" -> Ok(r.p)
                   [] r.sig \in {"ok", "continue"} ->
                        IF [r.p EXCEPT !.trace = p.trace] = p THEN Ret(r.p, "hang", "")
                        ELSE whileLoop(r.p, conditionPath, bodyOps)
                   [] OTHER -> r

whileOp(p, op) ==
    IF Len(op.Args) # 2
    THEN Fail(p, "while error: expected 2 arguments for condition path and body")
    ELSE IF op.Args[1].t # "str"
    THEN Fail(p, "while error: expected condition path to be a string")
    ELSE IF ~IsOpsBlock(op.Args[2]) THEN Fail(p, "while error in 'body' operations")
    ELSE whileLoop(p, op.Args[1].s, parseJispOps(op.Args[2]))

\* a nil []interface{}: an array of length 0 that json.Marshal writes as null
NilSlice == Value("arr", TRUE, 0, "", <<>>, {})

\* Eq: vals[0] == vals[1] on interface{} values.  Values of different
\* dynamic types are unequal; two slices, or two maps, make the comparison a
\* Go runtime panic ("comparing uncomparable type"), which nothing recovers.
Eq(p) ==
    IF ~popx(p, 2).ok THEN Fail(p, "stack underflow for eq: expected 2 values")
    ELSE IF popx(p, 2).values[1].t = popx(p, 2).values[2].t
            /\ popx(p, 2).values[1].t \in {"arr", "obj"}
    THEN Ret(popx(p, 2).p, "panic", "runtime error: comparing uncomparable type")
    ELSE Ok(Push(popx(p, 2).p, Bool(popx(p, 2).values[1] = popx(p, 2).values[2])))

eqOp(p, op) == makeNoArgsHandler(p, op, Eq(p))

\* the bytes of the strings this model slices, and the strings of their slices
Chars(str) ==
    CASE str = "" -> <<>>
      [] str = "abc" -> <<"a", "b", "c">>
      [] str = "ab" -> <<"a", "b">>
      [] str = "bc" -> <<"b", "c">>
      [] OTHER -> <<str>>

FromChars(cs) == CHOOSE str \in {"", "a", "b", "c", "ab", "bc", "abc"} : Chars(str) = cs

\* len(v) of a string or an array
length(v) == IF v.t = "str" THEN Len(Chars(v.s)) ELSE Len(v.a)

\* v[start:end] of a string or an array, 0 <= start <= end <= len(v)
sliced(v, start, end) ==
    IF v.t = "str" THEN Str(FromChars(SubSeq(Chars(v.s), start + 1, end)))
    ELSE Arr(SubSeq(v.a, start + 1, end))

\* (variant: three values are taken only when the two topmost are numbers)
slicePopByType(p) ==
    IF Len(p.Stack) >= 3 /\ p.Stack[Len(p.Stack)].t = "num" /\ p.Stack[Len(p.Stack) - 1].t = "num"
    THEN [p |-> popx(p, 3).p, v |-> popx(p, 3).values]
    ELSE [p |-> popx(p, 2).p, v |-> Append(popx(p, 2).values, Null)]

\* the values sliceOp pops: three (input, start, end) if the stack holds
\* three, otherwise two (input, start) and nil for the end
slicePop(p) ==
    IF popx(p, 3).ok THEN [p |-> popx(p, 3).p, v |-> popx(p, 3).values]
    ELSE [p |-> popx(p, 2).p, v |-> Append(popx(p, 2).values, Null)]

\* sliceOp once it has its operands v = <<input, start, end>>; int(f)
\* truncates, and an end of nil is len(input)
sliceValues(p, v) ==
    IF v[2].t # "num" THEN Fail(p, "slice error: expected numeric start index")
    ELSE IF v[3] # Null /\ v[3].t # "num" THEN Fail(p, "slice error: expected numeric end index")
    ELSE IF v[1].t \notin {"str", "arr"} THEN Fail(p, "slice error: unsupported type for slicing")
    ELSE LET start == Trunc(v[2].n, v[2].d)
             end == IF v[3] = Null THEN length(v[1]) ELSE Trunc(v[3].n, v[3].d)
         IN  IF start < 0 \/ end < start \/ end > length(v[1])
             THEN Fail(p, "slice error: invalid indices")
             ELSE Ok(Push(p, sliced(v[1], start, end)))

sliceOp(p, op) ==
    IF Len(op.Args) > 0 THEN Fail(p, "slice error: expected 0 arguments")
    ELSE IF Len(p.Stack) < 2
    THEN Fail(p, "slice error: stack underflow, expected at least 2 values (input, start)")
    ELSE sliceValues(slicePop(p).p, slicePop(p).v)

\* popThree: the three topmost values, deepest first; each is removed before
\* its type is checked, the topmost first
popThree(p, opName, types) ==
    IF Len(p.Stack) < 3
    THEN [ok |-> FALSE, values |-> <<>>,
          r |-> Fail(p, "stack underflow for " \o opName \o ": expected 3 values")]
    ELSE LET n == Len(p.Stack)
             bad == {i \in 1..3 : p.Stack[n - 3 + i].t # types[i]}
         IN  IF bad = {}
             THEN [ok |-> TRUE, values |-> SubSeq(p.Stack, n - 2, n),
                   r |-> Ok([p EXCEPT !.Stack = SubSeq(@, 1, n - 3)])]
             ELSE LET i == CHOOSE j \in bad : \A k \in bad : k <= j
                  IN  [ok |-> FALSE, values |-> <<>>,
                       r |-> Fail([p EXCEPT !.Stack = SubSeq(@, 1, n - 4 + i)],
                                  opName \o " error: expected a " \o
                                    (IF types[i] = "num" THEN "float64" ELSE types[i]) \o " on stack")]

\* a < b on numbers
RatLess(a, b) == a.n * b.d < b.n * a.d

\* the loop of rangeOp from i on: for ; i < stop; i += step
RECURSIVE rangeLoop(_, _, _, _)
rangeLoop(i, stop, step, result) ==
    IF ~RatLess(i, stop) THEN result
    ELSE rangeLoop(RatAdd(i, step), stop, step, Append(result, i))

\* rangeOp.  With start < stop and step <= 0 the loop's condition stays true
\* and the loop appends for ever ("hang"); a loop that never runs leaves the
\* nil slice.
rangeOp(p, op) ==
    IF Len(op.Args) # 0 THEN Fail(p, "range error: expected 0 arguments")
    ELSE LET a == popThree(p, "range", <<"num", "num", "num">>)
         IN  IF ~a.ok THEN a.r
             ELSE IF ~RatLess(a.values[1], a.values[2]) THEN Ok(Push(a.r.p, NilSlice))
             ELSE IF a.values[3].n <= 0 THEN Ret(a.r.p, "hang", "")
             ELSE Ok(Push(a.r.p, Arr(rangeLoop(a.values[1], a.values[2], a.values[3], <<>>))))

\* concatOp: popTwo[string], the topmost value is removed and checked first
concatOp(p, op) ==
    IF Len(op.Args) > 0 THEN Fail(p, "concat error: expected 0 arguments")
    ELSE IF Len(p.Stack) < 2 THEN Fail(p, "stack underflow for concat: expected 2 values")
    ELSE LET v2 == popTyped(p, "str", "", "concat error: expected a string on stack")
         IN  IF v2.sig # "ok" THEN v2
             ELSE LET v1 == popTyped(v2.p, "str", "", "concat error: expected a string on stack")
                  IN  IF v1.sig # "ok" THEN v1
                      ELSE Ok(Push(v1.p, Str(v1.val.s \o v2.val.s)))

\* Not
notOp(p, op) ==
    LET val == popTyped(p, "bool", "stack underflow for not: expected 1 value",
                        "not error: expected a bool on stack")
    IN  IF val.sig # "ok" THEN val ELSE Ok(Push(val.p, Bool(~val.val.b)))

\* the place in Go's order of strings of the strings this model sorts
StrRank(str) ==
    CASE str = "" -> 0
      [] str = "a" -> 1
      [] str = "ab" -> 2
      [] str = "abc" -> 3
      [] str = "b" -> 4
      [] str = "bc" -> 5
      [] str = "c" -> 6

\* v[i] < v[j] as sortOp gives it to sort.Slice
sortLess(a, b) == IF a.t = "num" THEN RatLess(a, b) ELSE StrRank(a.s) < StrRank(b.s)

\* x put in its place in the sorted v
RECURSIVE sortInsert(_, _)
sortInsert(v, x) ==
    IF v = <<>> THEN <<x>>
    ELSE IF sortLess(x, v[1]) THEN <<x>> \o v
    ELSE <<v[1]>> \o sortInsert(Tail(v), x)

\* what sort.Slice leaves in v (elements that are not less than each other
\* are equal values)
RECURSIVE sortSlice(_)
sortSlice(v) == IF v = <<>> THEN <<>> ELSE sortInsert(sortSlice(Tail(v)), v[1])

\* The array popped by sortOp is the slice of the literal of the push before
\* it: pushOp pushed op.Args[0] itself, and nothing has executed since.
\* (A slice that came to the stack another way is taken to share nothing.)
sortsLiteral(p) ==
    /\ p.trace # <<>>
    /\ Last(p.CallStack).Ip >= 1
    /\ Last(p.trace).name = "push"
    /\ Last(p.trace).path = Append(Last(p.CallStack).BasePath, Num(Last(p.CallStack).Ip - 1))
    /\ Last(p.trace).depthBefore = Len(p.CallStack)
    /\ Last(p.trace).stackAfter = p.Stack
    /\ ~Last(p.trace).raised

\* sort.Slice sorts in place.  p is the program before sortOp popped, q the
\* program to go on with: the elements of the literal in the frame's Ops are
\* permuted with the array, and those in Code with them where the frame's
\* Ops are the slice Code (the root frame made by Run or stepOp).
sortInPlace(p, q, sorted) ==
    IF ~sortsLiteral(p) THEN q
    ELSE LET f == Len(p.CallStack)
             i == Last(p.CallStack).Ip
             r == [q EXCEPT !.CallStack[f].Ops[i].Args[1] = Arr(sorted)]
         IN  IF f = 1 /\ p.CallStack[1].VarsRef = "global"
             THEN [r EXCEPT !.Code[i].Args[1] = Arr(sorted)]
             ELSE r

\* sortOp
sortOp(p, op) ==
    IF Len(op.Args) # 0 THEN Fail(p, "sort error: expected 0 arguments")
    ELSE LET val == popValue(p, "sort error: stack underflow for sort: expected 1 value")
         IN  IF val.sig # "ok" THEN val
             ELSE IF val.val.t # "arr"
             THEN Fail(val.p, "sort error: unsupported type for sorting, expected array")
             ELSE IF Len(val.val.a) = 0 THEN Ok(Push(val.p, val.val))
             ELSE IF val.val.a[1].t \notin {"num", "str"}
             THEN Fail(val.p, "sort error: array contains unsortable types")
             ELSE IF \E k \in 1..Len(val.val.a) : val.val.a[k].t # val.val.a[1].t
             THEN Fail(val.p, "sort error: array contains mixed types")
             ELSE Ok(Push(sortInPlace(p, val.p, sortSlice(val.val.a)),
                          Arr(sortSlice(val.val.a))))

\* applyCollectionLoop with the handler of mapOp (opName "map") or filterOp
\* ("filter"): the loop variable goes to the program's Variables, the body
\* runs in a frame with a map of its own, and the value it leaves on the
\* stack is the item's result (filter: nil unless it is true)
collectItems(p, opName, items, i, varName, bodyOps, result) ==
    IF i > Len(items) THEN [p |-> p, sig |-> "ok", msg |-> "", val |-> result]
    ELSE LET q == [p EXCEPT !.Variables = MapSet(@, varName, items[i])]
             r == executeOperationsWithPathSegment(
                      q, bodyOps, Str(IF opName = "map" THEN "map_ops_from_stack"
                                      ELSE "filter_ops_from_stack"), FALSE)
         IN  IF r.sig # "ok" THEN r
             ELSE LET v == IF opName = "map"
                           THEN popValue(r.p, "stack underflow for map: expected 1 value")
                           ELSE popTyped(r.p, "bool",
                                         "stack underflow for filter: expected 1 value",
                                         "filter error: expected a bool on stack")
                      res == IF opName = "map" THEN v.val
                             ELSE IF v.val.b THEN items[i] ELSE Null
                  IN  IF v.sig # "ok" THEN v
                      ELSE collectItems(v.p, opName, items, i + 1, varName, bodyOps,
                                        Append(result, res))

\* popCollectionOpArgs, then mapOp or filterOp
collectionOp(p, op, opName) ==
    IF Len(op.Args) # 0 THEN Fail(p, "error: expected 0 arguments")
    ELSE LET a == popx(p, 3)
         IN  IF ~a.ok THEN Fail(p, "stack underflow for " \o opName \o ": expected 3 values")
             ELSE IF a.values[1].t # "arr"
             THEN Fail(a.p, "error: expected an array on stack for input")
             ELSE IF a.values[2].t # "str"
             THEN Fail(a.p, "error: expected a string on stack for varName")
             ELSE IF ~IsOpsBlock(a.values[3]) THEN Fail(a.p, "error: invalid operations block")
             ELSE LET r == collectItems(a.p, opName, a.values[1].a, 1, a.values[2].s,
                                        parseJispOps(a.values[3]), <<>>)
                      kept == IF opName = "map" THEN r.val
                              ELSE SelectSeq(r.val, LAMBDA x : x # Null)
                  IN  IF r.sig # "ok" THEN r
                      ELSE Ok(Push(r.p, IF kept = <<>> THEN NilSlice ELSE Arr(kept)))

mapOp(p, op) == collectionOp(p, op, "map")

filterOp(p, op) == collectionOp(p, op, "filter")

\* the loop of reduceOp: the accumulator and the item are pushed, the body
\* runs in a frame with a map of its own and must change the stack's length
reduceItems(p, items, i, reduceOps, accumulator) ==
    IF i > Len(items) THEN Ok(Push(p, accumulator))
    ELSE LET q == Push(Push(p, accumulator), items[i])
             r == executeOperationsWithPathSegment(q, reduceOps, Str("reduce_ops_from_stack"),
                                                   FALSE)
         IN  IF r.sig # "ok" THEN r
             ELSE IF Len(r.p.Stack) = Len(q.Stack)
             THEN Fail(r.p, "reduce error: operations block did not push a result to the stack")
             ELSE LET v == popValue(r.p, "stack underflow for reduce: expected 1 value")
                  IN  IF v.sig # "ok" THEN v
                      ELSE reduceItems(v.p, items, i + 1, reduceOps, v.val)

reduceOp(p, op) ==
    IF Len(op.Args) # 0 THEN Fail(p, "reduce error: expected 0 arguments")
    ELSE LET a == popx(p, 3)
         IN  IF ~a.ok THEN Fail(p, "stack underflow for reduce: expected 3 values")
             ELSE IF a.values[1].t # "arr"
             THEN Fail(a.p, "reduce error: expected an array on stack for input")
             ELSE IF ~IsOpsBlock(a.values[2])
             THEN Fail(a.p, "reduce error: invalid operations block")
             ELSE reduceItems(a.p, a.values[1].a, 1, parseJispOps(a.values[2]), a.values[3])

\* joinOp after pair i: the next pair
joinRest(v, pairs, i, leftName, rightName, joinOps) ==
    IF v.sig # "ok" THEN v
    ELSE joinItems(v.p, pairs, i + 1, leftName, rightName, joinOps, v.val)

\* joinOp after the body returned r for the pair (l, rt): the condition is
\* popped and the pair is kept if it is true
joinNext(r, l, rt, leftName, rightName, result) ==
    IF r.sig # "ok" THEN r
    ELSE IF Len(r.p.Stack) < 1 THEN Fail(r.p, "stack underflow for join: expected 1 value")
    ELSE IF Last(r.p.Stack).t # "bool"
    THEN Fail([r.p EXCEPT !.Stack = Front(@)], "join error: expected a bool on stack")
    ELSE [p |-> [r.p EXCEPT !.Stack = Front(@)], sig |-> "ok", msg |-> "",
          val |-> IF Last(r.p.Stack).b
                  THEN Append(result, Obj(MapSet(MapSet(EmptyMap, leftName, l), rightName, rt)))
                  ELSE result]

\* the loops of joinOp over the pairs (left item, right item), pair i onwards:
\* both items go to the program's Variables and the body runs in a frame
\* with a map of its own
joinItems(p, pairs, i, leftName, rightName, joinOps, result) ==
    IF i > Len(pairs) THEN [p |-> p, sig |-> "ok", msg |-> "", val |-> result]
    ELSE joinRest(joinNext(executeOperationsWithPathSegment(
                               [p EXCEPT !.Variables = MapSet(MapSet(@, leftName, pairs[i][1]),
                                                              rightName, pairs[i][2])],
                               joinOps, Str("join_ops_from_stack"), FALSE),
                           pairs[i][1], pairs[i][2], leftName, rightName, result),
                  pairs, i, leftName, rightName, joinOps)

\* the pairs of joinOp in the order of its two loops
joinPairs(left, right) ==
    [k \in 1..(Len(left) * Len(right)) |->
        <<left[((k - 1) \div Len(right)) + 1], right[((k - 1) % Len(right)) + 1]>>]

\* joinOp after its loops
joinDone(r) ==
    IF r.sig # "ok" THEN r
    ELSE Ok(Push(r.p, IF r.val = <<>> THEN NilSlice ELSE Arr(r.val)))

joinOp(p, op) ==
    IF Len(op.Args) # 0 THEN Fail(p, "join error: expected 0 arguments")
    ELSE IF Len(p.Stack) < 5 THEN Fail(p, "stack underflow for join: expected 5 values")
    ELSE LET a == popx(p, 5)
         IN  IF a.values[1].t # "arr" \/ a.values[2].t # "arr"
             THEN Fail(a.p, "join error: expected an array on stack")
             ELSE IF a.values[3].t # "str" \/ a.values[4].t # "str"
             THEN Fail(a.p, "join error: expected a string on stack for name")
             ELSE IF ~IsOpsBlock(a.values[5]) THEN Fail(a.p, "join error: invalid operations block")
             ELSE joinDone(joinItems(a.p, joinPairs(a.values[1].a, a.values[2].a), 1,
                                     a.values[3].s, a.values[4].s,
                                     parseJispOps(a.values[5]), <<>>))

\* callOp: the function is a name or a raw block; its body runs in a frame
\* with a map of its own
callOp(p, op) ==
    LET f == popValue(p, "stack underflow for call: expected 1 value")
    IN  IF f.sig # "ok" THEN f
        ELSE LET g == CASE f.val.t = "str" -> getValueForPath(f.p, f.val.s)
                        [] f.val.t = "arr" -> <<TRUE, f.val>>
                        [] OTHER -> <<FALSE, Null>>
             IN  IF f.val.t \notin {"str", "arr"}
                 THEN Fail(f.p, "call error: expected a function name or raw function code")
                 ELSE IF ~g[1] THEN Fail(f.p, "call error: could not find function")
                 ELSE IF ~IsOpsBlock(g[2]) THEN Fail(f.p, "call error: invalid operations block")
                 ELSE LET r == executeOperationsWithPathSegment(
                                   f.p, parseJispOps(g[2]), Str("function_call"), FALSE)
                      IN  IF r.sig = "return" THEN Ok(r.p) ELSE r

handler(p, op) ==
    CASE op.Name = "push" -> pushOp(p, op)
      [] op.Name = "pop" -> popOp(p, op)
      [] op.Name = "set" -> setOp(p, op)
      [] op.Name = "get" -> getOp(p, op)
      [] op.Name = "add" -> addOp(p, op)
      [] op.Name \in {"sub", "mul", "div", "mod"} -> arithmeticOp(p, op)
      [] op.Name = "raise" -> raiseOp(p, op)
      [] op.Name = "noop" -> constantHandler(p, op, "ok")
      [] op.Name = "break" -> constantHandler(p, op, "break")
      [] op.Name = "continue" -> constantHandler(p, op, "continue")
      [] op.Name = "exit" -> constantHandler(p, op, "exit")
      [] op.Name = "breakpoint" -> constantHandler(p, op, "breakpoint")
      [] op.Name = "return" -> returnOp(p, op)
      [] op.Name = "if" -> ifOp(p, op)
      [] op.Name = "try" -> tryOp(p, op)
      [] op.Name = "for" -> forOp(p, op)
      [] op.Name = "while" -> whileOp(p, op)
      [] op.Name = "map" -> mapOp(p, op)
      [] op.Name = "filter" -> filterOp(p, op)
      [] op.Name = "reduce" -> reduceOp(p, op)
      [] op.Name = "join" -> joinOp(p, op)
      [] op.Name = "assert" -> assertOp(p, op)
      [] op.Name = "slice" -> sliceOp(p, op)
      [] op.Name = "eq" -> eqOp(p, op)
      [] op.Name = "range" -> rangeOp(p, op)
      [] op.Name = "sort" -> sortOp(p, op)
      [] op.Name = "concat" -> concatOp(p, op)
      [] op.Name = "not" -> makeNoArgsHandler(p, op, notOp(p, op))
      [] op.Name = "call" -> callOp(p, op)

\* the breakpoint check made against the instruction that has just executed
atBreakpointBehind(p) ==
    /\ p.Debug
    /\ Len(p.Breakpoints) > 0
    /\ \E i \in 1..Len(p.Breakpoints) :
          pathsEqual(Append(Last(p.CallStack).BasePath, Num(Last(p.CallStack).Ip - 1)),
                     p.Breakpoints[i])

\* the breakpoint check after a successful instruction
atBreakpoint(p) ==
    /\ p.Debug
    /\ Len(p.Breakpoints) > 0
    /\ Last(p.CallStack).Ip < Len(Last(p.CallStack).Ops)
    /\ \E i \in 1..Len(p.Breakpoints) : pathsEqual(currentInstructionPath(p), p.Breakpoints[i])

\* the message in the error slot, "" when the slot is empty
ErrorMessage(p) == IF p.Error = NoError THEN "" ELSE p.Error[1].message

\* the name, the instruction path and the stack snapshot of the error slot
ErrorRecord(p) ==
    IF p.Error = NoError THEN <<>>
    ELSE <<p.Error[1].operation_name, p.Error[1].instruction_pointer, p.Error[1].stack_snapshot>>

\* the top of the stack
Top(p) == IF p.Stack = <<>> THEN Omitted ELSE Last(p.Stack)

\* the variable maps a name is looked up in: those of the frames, innermost
\* first, then the program's Variables
Scopes(p) ==
    LET d == Len(p.CallStack)
    IN  [k \in 1..(d + 1) |-> IF k <= d THEN FrameVars(p, d + 1 - k) ELSE p.Variables]

\* <<ip, len(ops)>> of every frame of the call stack
FramePositions(p) == [i \in 1..Len(p.CallStack) |-> <<p.CallStack[i].Ip, Len(p.CallStack[i].Ops)>>]

\* What the trace records of an executed instruction, once it has returned:
\* its path, name and arguments, the error slot, the program's variables, the
\* variable maps in scope, the stack and its top before and after it, the
\* error record after it,
\* whether it set the error slot, the ip of the frame it was fetched from and
\* the depth of the call stack before and after it, the length of the frame's
\* code and the positions of all frames before and after it, what it returned, and where
\* the entries of the instructions nested in it begin.
TraceEntry(p0, op, r, q) ==
    [path |-> currentInstructionPath(p0), name |-> op.Name, args |-> op.Args,
     errBefore |-> p0.Error # NoError, errAfter |-> q.Error # NoError,
     msgAfter |-> ErrorMessage(q), errorAfter |-> ErrorRecord(q),
     stackBefore |-> p0.Stack, stackAfter |-> q.Stack,
     varsBefore |-> p0.Variables, varsAfter |-> q.Variables,
     scopesBefore |-> Scopes(p0), scopesAfter |-> Scopes(q),
     raised |-> q.Error # p0.Error,
     topBefore |-> Top(p0), topAfter |-> Top(q),
     ipBefore |-> Last(p0.CallStack).Ip, ipAfter |-> q.CallStack[Len(p0.CallStack)].Ip,
     depthBefore |-> Len(p0.CallStack), depthAfter |-> Len(q.CallStack),
     lenOps |-> Len(Last(p0.CallStack).Ops),
     framesBefore |-> FramePositions(p0), framesAfter |-> FramePositions(q),
     sig |-> r, first |-> Len(p0.trace) + 1]

Logged(p0, op, r, q) == Ret([q EXCEPT !.trace = Append(@, TraceEntry(p0, op, r, q))], r, "")

\* (variant: the ip stays on an instruction that has set the error slot)
advanceUnlessError(p, d) ==
    IF p.Error # NoError THEN p ELSE [p EXCEPT !.CallStack[d].Ip = @ + 1]

\* (variant: the ip moves on by two)
advanceTwice(p, d) == [p EXCEPT !.CallStack[d].Ip = @ + 2]

\* frame.Ip++ on the frame the instruction was fetched from, frame d
advance(p, d) == [p EXCEPT !.CallStack[d].Ip = @ + 1]

\* executeSingleInstruction from the handler's return on: the ip advances, a
\* signal is passed on, an error is stored, and after a success the
\* breakpoints are looked at
afterHandler(p, op, r) ==
    LET d == Len(p.CallStack)
        q == advance(r.p, d)
    IN  CASE r.sig \in Unwinding -> r
          [] r.sig \in Signals -> Logged(p, op, r.sig, q)
          [] r.sig = "error" ->
               Logged(p, op, "ok", [q EXCEPT !.Error = newError(q, op, r.msg)])
          [] OTHER ->
               IF atBreakpoint(q) THEN Logged(p, op, "breakpoint", q)
               ELSE Logged(p, op, "ok", q)

\* the instruction the top frame points at
currentOp(p) == Last(p.CallStack).Ops[Last(p.CallStack).Ip + 1]

executeSingleInstruction(p) ==
    LET d == Len(p.CallStack)
        op == currentOp(p)
    IN  IF op.Name \notin operations
        THEN Logged(p, op, "ok",
                    advance([p EXCEPT !.Error = newError(p, op, "unknown operation")], d))
        ELSE afterHandler(p, op, handler(p, op))

\* ExecuteFrame after an instruction returned r: a breakpoint or a return
\* ends the frame quietly, another signal is passed on, otherwise the loop
\* goes on
frameNext(r, d, instructionLimit) ==
    CASE r.sig = "breakpoint" -> Ok(r.p)
      [] r.sig = "return" -> Ok(r.p)
      [] r.sig # "ok" -> r
      [] OTHER -> frameLoop(r.p, d, instructionLimit - 1)

\* the loop of ExecuteFrame on the frame it pushed
frameLoop(p, d, instructionLimit) ==
    IF ~(instructionLimit # 0 /\ p.CallStack[d].Ip < Len(p.CallStack[d].Ops)) THEN Ok(p)
    ELSE IF p.Error # NoError THEN Ok(p)
    ELSE frameNext(executeSingleInstruction(p), d, instructionLimit)

\* the map of the frame ExecuteFrame pushes
frameVarsRef(p, useParentScope) ==
    IF useParentScope /\ currentFrame(p) # 0 THEN "parent"
    ELSE IF currentFrame(p) = 0 THEN "global"
    ELSE "own"

\* (variant: the deferred function pops nothing)
popPushedNever(r, d) == r

\* the deferred function of ExecuteFrame: the top frame is popped if it is
\* the frame pushed, the one at depth d
popPushed(r, d) ==
    IF Len(r.p.CallStack) = d THEN [r EXCEPT !.p.CallStack = Front(@)] ELSE r

\* ExecuteFrame
ExecuteFrame(p, ops, BasePath, useParentScope, instructionLimit) ==
    IF Len(ops) = 0 THEN Ok(p)
    ELSE popPushed(frameLoop([p EXCEPT !.CallStack =
                                 Append(@, CallFrame(ops, 0, BasePath,
                                                     frameVarsRef(p, useParentScope), EmptyMap))],
                             Len(p.CallStack) + 1, instructionLimit),
                   Len(p.CallStack) + 1)


(***************************************************************************)
(* Serialization: json.Marshal of a program and json.Unmarshal back.       *)
(***************************************************************************)
\* the pairs of an object literal, leaving out the omitempty fields that are empty
Fields(pairs) == {kv \in pairs : kv[2] # Omitted}

\* json.Marshal of a value: a nil slice is written as null
RECURSIVE MarshalValue(_)
MarshalValue(v) ==
    CASE v.t = "arr" /\ v.b -> Null
      [] v.t = "arr" -> Arr([i \in 1..Len(v.a) |-> MarshalValue(v.a[i])])
      [] v.t = "obj" -> Obj({<<kv[1], MarshalValue(kv[2])>> : kv \in v.o})
      [] OTHER -> v

MarshalValues(vs) == [i \in 1..Len(vs) |-> MarshalValue(vs[i])]

MarshalMap(m) == {<<kv[1], MarshalValue(kv[2])>> : kv \in m}

\* CallFrame.MarshalJSON: Ip is the whole instruction path; variables is
\* omitempty, so a nil or empty map leaves no field
MarshalCallFrame(f, variables) ==
    Obj(Fields({<<"Ip", Arr(FramePath(f))>>,
                <<"Ops", MarshalOps(f.Ops)>>,
                <<"BasePath", Arr(f.BasePath)>>,
                <<"variables", IF variables = EmptyMap THEN Omitted
                               ELSE Obj(MarshalMap(variables))>>}))

MarshalFrame(p, i) == MarshalCallFrame(p.CallStack[i], FrameVars(p, i))

\* the map of a frame of the error's call-stack snapshot, as it is now
SnapshotVars(p, f) ==
    CASE f.VarsRef = "global" -> p.Variables
      [] f.VarsRef = "own" -> f.Own
      [] OTHER -> EmptyMap

\* json.Marshal of the error of p.  The call stack is written before the
\* error, and writing a frame read from JSON puts its ip into the array an
\* InstructionPointer made from that frame shares.
MarshalError(p, e) ==
    Obj({<<"operation_name", Str(e.operation_name)>>,
         <<"instruction_pointer",
           Arr(IF e.shared /\ p.CallStack # <<>> /\ FromJSON(p.CallStack[1])
               THEN FramePath(p.CallStack[1]) ELSE e.instruction_pointer)>>,
         <<"message", Str(e.message)>>,
         <<"stack_snapshot", Arr(MarshalValues(e.stack_snapshot))>>,
         <<"call_stack_snapshot",
           Arr([i \in 1..Len(e.call_stack_snapshot) |->
                  MarshalCallFrame(e.call_stack_snapshot[i],
                                   SnapshotVars(p, e.call_stack_snapshot[i]))])>>,
         <<"variables_snapshot", Obj(MarshalMap(e.variables_snapshot))>>})

\* json.Marshal(*JispProgram)
Marshal(p) ==
    Obj(Fields({<<"pid", IF p.PID = 0 THEN Omitted ELSE Num(p.PID)>>,
                <<"stack", Arr(MarshalValues(p.Stack))>>,
                <<"variables", Obj(MarshalMap(p.Variables))>>,
                <<"code", MarshalOps(p.Code)>>,
                <<"call_stack", Arr([i \in 1..Len(p.CallStack) |-> MarshalFrame(p, i)])>>,
                <<"error", IF p.Error = NoError THEN Omitted ELSE MarshalError(p, p.Error[1])>>,
                <<"history", Arr(p.History)>>,
                <<"save_history", IF p.SaveHistory THEN Bool(TRUE) ELSE Omitted>>,
                <<"debug", IF p.Debug THEN Bool(TRUE) ELSE Omitted>>,
                <<"breakpoints", IF p.Breakpoints = <<>> THEN Omitted
                                 ELSE Arr([i \in 1..Len(p.Breakpoints) |-> Arr(p.Breakpoints[i])])>>,
                <<"running", IF p.Running THEN Bool(TRUE) ELSE Omitted>>}))

\* CallFrame.UnmarshalJSON: the last element of Ip is the ip, the rest the
\* base path; the variables object becomes a map of the frame's own, and a
\* frame without one has a nil map
\* (variant: the whole decoded Ip array is kept as the base path)
UnmarshalFrameWholePath(d) ==
    LET path == MapGet(d.o, "Ip").a
    IN  CallFrame(parseJispOps(MapGet(d.o, "Ops")),
                  Last(path).n,
                  path,
                  IF MapHas(d.o, "variables") THEN "own" ELSE "nil",
                  IF MapHas(d.o, "variables") THEN MapGet(d.o, "variables").o ELSE EmptyMap)

UnmarshalFrame(d) ==
    LET path == MapGet(d.o, "Ip").a
    IN  CallFrame(parseJispOps(MapGet(d.o, "Ops")),
                  Last(path).n,
                  IF Len(path) > 1 THEN Front(path) ELSE <<>>,
                  IF MapHas(d.o, "variables") THEN "own" ELSE "nil",
                  IF MapHas(d.o, "variables") THEN MapGet(d.o, "variables").o ELSE EmptyMap)

UnmarshalError(d) ==
    << [operation_name |-> MapGet(d.o, "operation_name").s,
        instruction_pointer |-> MapGet(d.o, "instruction_pointer").a,
        shared |-> FALSE,
        message |-> MapGet(d.o, "message").s,
        stack_snapshot |-> MapGet(d.o, "stack_snapshot").a,
        call_stack_snapshot |->
            LET cs == MapGet(d.o, "call_stack_snapshot").a
            IN  [i \in 1..Len(cs) |-> UnmarshalFrame(cs[i])],
        variables_snapshot |-> MapGet(d.o, "variables_snapshot").o] >>

\* jispProgramFromBytes: json.Unmarshal into a JispProgram, ensureInitialized
jispProgramFromBytes(d) ==
    [PID |-> IF MapHas(d.o, "pid") THEN MapGet(d.o, "pid").n ELSE 0,
     Stack |-> IF MapHas(d.o, "stack") THEN MapGet(d.o, "stack").a ELSE <<>>,
     Variables |-> IF MapHas(d.o, "variables") THEN MapGet(d.o, "variables").o ELSE EmptyMap,
     Code |-> IF MapHas(d.o, "code") THEN parseJispOps(MapGet(d.o, "code")) ELSE <<>>,
     CallStack |-> IF MapHas(d.o, "call_stack")
                   THEN LET cs == MapGet(d.o, "call_stack").a
                        IN  [i \in 1..Len(cs) |-> UnmarshalFrame(cs[i])]
                   ELSE <<>>,
     Error |-> IF MapHas(d.o, "error") THEN UnmarshalError(MapGet(d.o, "error")) ELSE NoError,
     History |-> IF MapHas(d.o, "history") THEN MapGet(d.o, "history").a ELSE <<>>,
     SaveHistory |-> MapHas(d.o, "save_history") /\ MapGet(d.o, "save_history").b,
     Debug |-> MapHas(d.o, "debug") /\ MapGet(d.o, "debug").b,
     Breakpoints |-> IF MapHas(d.o, "breakpoints")
                     THEN LET bs == MapGet(d.o, "breakpoints").a
                          IN  [i \in 1..Len(bs) |-> bs[i].a]
                     ELSE <<>>,
     Running |-> MapHas(d.o, "running") /\ MapGet(d.o, "running").b,
     trace |-> <<>>]

\* popSubProgram: the value on the stack is marshalled and parsed again
popSubProgram(p) == jispProgramFromBytes(Marshal(p))

(***************************************************************************)
(* The diff engine: CreatePatch, diff, Patch.Apply, applyOp, findContainer. *)
(* A path is the list of the keys joined with "/"; splitting the joined    *)
(* string cuts inside a key that holds a "/".                              *)
(***************************************************************************)
\* strings.Split(key, "/") for the keys of this model
SplitKey(k) == IF k = "a/b" THEN <<"a", "b">> ELSE <<k>>

RECURSIVE SplitPath(_)
SplitPath(path) ==
    IF path = <<>> THEN <<>> ELSE SplitKey(path[1]) \o SplitPath(SubSeq(path, 2, Len(path)))

Operation(op, path, value) == Obj({<<"op", Str(op)>>, <<"path", Arr([i \in 1..Len(path) |-> Str(path[i])])>>, <<"value", value>>})

RECURSIVE SetToSeq(_)
SetToSeq(S) ==
    IF S = {} THEN <<>> ELSE LET x == CHOOSE y \in S : TRUE IN <<x>> \o SetToSeq(S \ {x})

RECURSIVE diff(_, _, _)
RECURSIVE diffKeys(_, _, _, _)
\* the keys of before, in the order ks: shared keys recurse, the others are removed
diffKeys(path, ks, before, after) ==
    IF ks = <<>> THEN <<>>
    ELSE LET key == ks[1]
             currentPath == Append(path, key)
             here == IF MapHas(after, key)
                     THEN diff(currentPath, MapGet(before, key), MapGet(after, key))
                     ELSE <<Operation("remove", currentPath, Null)>>
         IN  here \o diffKeys(path, SubSeq(ks, 2, Len(ks)), before, after)

\* Go ranges over the maps in no fixed order; the operations of one patch are
\* listed here in one order.
diff(path, before, after) ==
    IF before = after THEN <<>>
    ELSE IF before.t = "obj" /\ after.t = "obj"
    THEN LET added == SetToSeq(MapKeys(after.o) \ MapKeys(before.o))
         IN  diffKeys(path, SetToSeq(MapKeys(before.o)), before.o, after.o)
             \o [i \in 1..Len(added) |->
                   Operation("add", Append(path, added[i]), MapGet(after.o, added[i]))]
    ELSE <<Operation("replace", path, after)>>

CreatePatch(before, after) == diff(<<>>, before, after)

\* findContainer: the value holding the last path part, or failure
RECURSIVE findContainer(_, _)
findContainer(doc, pathParts) ==
    IF Len(pathParts) = 0 THEN [ok |-> FALSE, doc |-> Null]
    ELSE IF Len(pathParts) = 1 THEN [ok |-> TRUE, doc |-> doc]
    ELSE IF doc.t = "obj" /\ MapHas(doc.o, pathParts[1])
    THEN findContainer(MapGet(doc.o, pathParts[1]), SubSeq(pathParts, 2, Len(pathParts)))
    ELSE [ok |-> FALSE, doc |-> Null]

\* the document with the map at the end of pathParts changed by the operation
RECURSIVE updateAt(_, _, _, _)
updateAt(doc, pathParts, opName, value) ==
    IF Len(pathParts) = 1
    THEN IF opName = "remove" THEN Obj(MapDelete(doc.o, pathParts[1]))
         ELSE Obj(MapSet(doc.o, pathParts[1], value))
    ELSE Obj(MapSet(doc.o, pathParts[1],
                    updateAt(MapGet(doc.o, pathParts[1]), SubSeq(pathParts, 2, Len(pathParts)),
                             opName, value)))

\* the keys of a patch operation's path
pathKeys(d) == [i \in 1..Len(d.a) |-> d.a[i].s]

\* applyOp: [ok, doc]
applyOp(doc, op) ==
    LET parts == SplitPath(pathKeys(MapGet(op.o, "path")))
        c == findContainer(doc, parts)
    IN  IF ~c.ok \/ c.doc.t # "obj" THEN [ok |-> FALSE, doc |-> doc]
        ELSE [ok |-> TRUE,
              doc |-> updateAt(doc, parts, MapGet(op.o, "op").s, MapGet(op.o, "value"))]

RECURSIVE Apply(_, _)
Apply(patch, doc) ==
    IF patch = <<>> THEN [ok |-> TRUE, doc |-> doc]
    ELSE LET r == applyOp(doc, patch[1])
         IN  IF ~r.ok THEN r ELSE Apply(SubSeq(patch, 2, Len(patch)), r.doc)


(***************************************************************************)
(* The drivers: JispProgram.Run and the reflective operations.             *)
(***************************************************************************)
rootFrame(p) == CallFrame(p.Code, 0, <<Str("code")>>, "global", EmptyMap)

RECURSIVE runLoop(_)
\* Run after an instruction returned r
runNext(r) ==
    CASE r.sig = "ok" -> runLoop(r.p)
      [] r.sig = "breakpoint" -> Ok(r.p)
      [] r.sig = "return" -> runLoop([r.p EXCEPT !.CallStack = Front(@)])
      [] r.sig = "exit" -> r
      [] r.sig \in Unwinding -> r
      [] OTHER -> Ok(r.p)

\* the loop of Run
runLoop(p) ==
    IF p.CallStack = <<>> THEN Ok(p)
    ELSE IF Last(p.CallStack).Ip >= Len(Last(p.CallStack).Ops)
    THEN runLoop([p EXCEPT !.CallStack = Front(@)])
    ELSE IF p.Error # NoError THEN Ok(p)
    ELSE runNext(executeSingleInstruction(p))

Run(p) ==
    IF p.CallStack = <<>>
    THEN IF Len(p.Code) = 0 THEN Ok(p)
         ELSE runLoop([p EXCEPT !.CallStack = Append(@, rootFrame(p))])
    ELSE runLoop(p)

\* What a reflective operation leaves with its caller: the program it pushed
\* (sub), and how the caller's instruction ended: "ok", "error" (the handler
\* returned an error and pushed nothing), "panic" or "hang".
Pushed(sub) == [sub |-> sub, res |-> "ok"]

NotPushed(sub, res) == [sub |-> sub, res |-> res]

\* runOp after Run returned r
runDone(r) == IF r.sig \in Unwinding THEN NotPushed(r.p, r.sig) ELSE Pushed(r.p)

\* stepOp after the instruction returned r; with save_history (h) the patch
\* from the program after the instruction to the program before it is
\* appended to the history
stepDone(subProgram, r, h) ==
    IF r.sig \in Unwinding THEN NotPushed(r.p, r.sig)
    ELSE IF r.sig \notin {"ok", "breakpoint"} THEN NotPushed(r.p, "error")
    ELSE IF h THEN Pushed([r.p EXCEPT !.History =
                                   Append(@, Arr(CreatePatch(Marshal(r.p), Marshal(subProgram))))])
    ELSE Pushed(r.p)

\* runOp
runOp(v) == runDone(Run(popSubProgram(v)))

\* (variant: the history is written whether or not an instruction is left)
stepExecuteRecording(subProgram) ==
    IF Last(subProgram.CallStack).Ip < Len(Last(subProgram.CallStack).Ops)
    THEN stepDone(subProgram, executeSingleInstruction(subProgram), subProgram.SaveHistory)
    ELSE stepDone(subProgram, Ok(subProgram), subProgram.SaveHistory)

\* the part of stepOp after the root frame is there
stepExecute(subProgram) ==
    LET frame == Last(subProgram.CallStack)
    IN  IF frame.Ip < Len(frame.Ops)
        THEN stepDone(subProgram, executeSingleInstruction(subProgram), subProgram.SaveHistory)
        ELSE Pushed(subProgram)

\* stepOp
stepOp(v) ==
    LET subProgram == popSubProgram(v)
    IN  IF Len(subProgram.Code) = 0 THEN Pushed(subProgram)
        ELSE IF subProgram.CallStack = <<>>
        THEN stepExecute([subProgram EXCEPT !.CallStack = Append(@, rootFrame(subProgram))])
        ELSE stepExecute(subProgram)

\* undoOp: the last patch is applied to the serialized program and the result
\* parsed again (parsing each frame a second time changes nothing)
undoOp(v) ==
    LET subProgramBytes == Marshal(v)
        subProgram == jispProgramFromBytes(subProgramBytes)
    IN  IF Len(subProgram.History) = 0 THEN NotPushed(subProgram, "error")
        ELSE LET reverted == Apply(Last(subProgram.History).a, subProgramBytes)
             IN  IF ~reverted.ok THEN NotPushed(subProgram, "error")
                 ELSE LET revertedProgram == jispProgramFromBytes(reverted.doc)
                      IN  Pushed([revertedProgram EXCEPT !.History = Front(@)])

(***************************************************************************)
(* The driver: a program that holds one sub-program on its stack and       *)
(* applies the reflective operations run, step and undo to it, as in the   *)
(* reversible-debugging example of the README.                             *)
(***************************************************************************)
\* the longest code of a loaded program
MaxCodeLen == 2

\* the most reflective operations the driver applies to one program
MaxOps == 3

Instr(name, args) == Arr(<<Str(name)>> \o args)

\* a function: the try swallows nothing if signals pass through it
FnReturnInTry ==
    Arr(<<Instr("try", <<Arr(<<Instr("return", <<>>), Instr("push", <<Num(9)>>)>>), Str("e")>>),
          Instr("push", <<Num(7)>>)>>)

\* the instructions programs are built from
Menu ==
    {Instr("push", <<Num(1)>>),
     Instr("push", <<Str("boom")>>),
     Instr("push", <<FnReturnInTry>>),
     Instr("set", <<Str("x")>>),
     Instr("get", <<Str("x")>>),
     Instr("add", <<>>),
     Instr("raise", <<>>),
     Instr("bogus", <<>>),
     Instr("call", <<>>),
     Instr("exit", <<>>),
     Instr("try", <<Arr(<<Instr("add", <<>>), Instr("push", <<Num(9)>>)>>), Str("e"),
                    Arr(<<Instr("get", <<Str("e")>>)>>)>>),
     Instr("try", <<Arr(<<Instr("push", <<Num(2)>>)>>), Str("e"),
                    Arr(<<Instr("push", <<Num(3)>>)>>)>>),
     Instr("for", <<Str("i"), Arr(<<Num(1), Num(2)>>),
                    Arr(<<Instr("try", <<Arr(<<Instr("add", <<>>)>>), Str("e"),
                                         Arr(<<Instr("break", <<>>)>>)>>),
                          Instr("push", <<Num(0)>>)>>)>>)}

Codes == UNION {[1..n -> Menu] : n \in 1..MaxCodeLen}

\* the variables a loaded document may start with
InitialVariables == {EmptyMap, {<<"y", Num(0)>>}}

\* functions that return from inside a nested body, and functions that bind
\* a variable (by a string path, by an array path), the last one reading it
\* back by an array path
FnReturnInIf ==
    Arr(<<Instr("push", <<Bool(TRUE)>>),
          Instr("if", <<Arr(<<Instr("return", <<>>), Instr("push", <<Num(9)>>)>>)>>),
          Instr("push", <<Num(7)>>)>>)

FnReturnInFor ==
    Arr(<<Instr("for", <<Str("i"), Arr(<<Num(1), Num(2)>>),
                         Arr(<<Instr("push", <<Num(8)>>), Instr("return", <<>>)>>)>>),
          Instr("push", <<Num(7)>>)>>)

FnReturns == Arr(<<Instr("push", <<Num(8)>>), Instr("return", <<>>), Instr("push", <<Num(9)>>)>>)

FnSets == Arr(<<Instr("push", <<Num(1)>>), Instr("set", <<Str("v")>>)>>)

FnSetsByPath == Arr(<<Instr("push", <<Num(1)>>), Instr("set", <<Arr(<<Str("v")>>)>>)>>)

FnReads ==
    Arr(<<Instr("push", <<Num(1)>>), Instr("set", <<Str("x")>>), Instr("get", <<Str("x")>>),
          Instr("get", <<Arr(<<Str("x")>>)>>)>>)

\* the body of the blocks that bind x, by a string path and by an array path
SetsX == Arr(<<Instr("push", <<Num(1)>>), Instr("set", <<Str("x")>>)>>)

SetsXByPath == Arr(<<Instr("push", <<Num(1)>>), Instr("set", <<Arr(<<Str("x")>>)>>)>>)

\* the body given to map, filter (it leaves a boolean) and reduce
SetsXAndLeaves(v) == Arr(<<Instr("push", <<Num(1)>>), Instr("set", <<Str("x")>>), Instr("push", <<v>>)>>)

\* <<code, variables>> of the longer programs the driver loads besides Codes
\* bodies for join, map and filter: one that leaves true, one that fails,
\* one that breaks
JoinBodies ==
    {<<Instr("push", <<Bool(TRUE)>>)>>,
     <<Instr("add", <<>>)>>,
     <<Instr("break", <<>>)>>}

\* bodies for for and while: each pushes, then breaks or continues, at once
\* or from a nested if, and has an instruction left after that
LoopBodies(signals) ==
    {<<Instr("push", <<Num(1)>>), Instr(o, <<>>), Instr("push", <<Num(9)>>)>> :
        o \in signals}
    \cup
    {<<Instr("push", <<Bool(TRUE)>>),
       Instr("if", <<Arr(<<Instr(o, <<>>), Instr("push", <<Num(8)>>)>>)>>),
       Instr("push", <<Num(9)>>)>> :
        o \in signals}

\* bodies for while that continue: the condition is made false first
WhileContinues ==
    {<<Instr("push", <<Bool(FALSE)>>), Instr("set", <<Str("c")>>),
       Instr("continue", <<>>), Instr("push", <<Num(9)>>)>>,
     <<Instr("get", <<Str("c")>>), Instr("push", <<Bool(FALSE)>>), Instr("set", <<Str("c")>>),
       Instr("if", <<Arr(<<Instr("continue", <<>>)>>)>>), Instr("push", <<Num(9)>>)>>}

\* a while whose body fails at once; the condition c stays true
WhileFails ==
    <<Instr("while", <<Str("c"), Arr(<<Instr("add", <<>>)>>)>>), Instr("push", <<Num(5)>>)>>

\* break and continue outside any loop: in the root body, and in an if there
OutsideLoop ==
    {<<Instr("push", <<Num(1)>>), Instr(o, <<>>), Instr("push", <<Num(5)>>)>> :
        o \in {"break", "continue"}}
    \cup
    {<<Instr("push", <<Bool(TRUE)>>), Instr("if", <<Arr(<<Instr(o, <<>>)>>)>>),
       Instr("push", <<Num(5)>>)>> :
        o \in {"break", "continue"}}

\* arrays to filter, each with the body that decides: booleans kept if
\* true, and values of every JSON type with a body that is true, or false,
\* for all of them
FilterInputs ==
    {<< <<Bool(TRUE), Bool(FALSE), Bool(TRUE), Bool(TRUE)>>, <<Instr("get", <<Str("i")>>)>> >>}
    \cup
    {<< <<Num(1), Null, Str("s"), Arr(<<Null>>), Obj({}), Null, Num(1)>>,
        <<Instr("push", <<Bool(b)>>)>> >> : b \in BOOLEAN}

\* programs that slice: values beneath (none, or one), the input, the start,
\* an end or none, and slice
SliceCodes ==
    {[i \in 1..Len(beneath) |-> Instr("push", <<beneath[i]>>)]
       \o <<Instr("push", <<input>>), Instr("push", <<Num(start)>>)>>
       \o [i \in 1..Len(end) |-> Instr("push", <<Num(end[i])>>)]
       \o <<Instr("slice", <<>>)>> :
        beneath \in {<<>>, <<Num(9)>>, <<Str("abc")>>},
        input \in {Str("abc"), Arr(<<Num(1), Null, Num(3)>>)},
        start \in {0 - 1, 0, 1, 3, 4},
        end \in {<<>>, <<0>>, <<2>>, <<3>>, <<4>>}}

SliceDocuments ==
    {NewProgram(parseJispOps(Arr(c)), <<>>, EmptyMap, FALSE, FALSE, <<>>) : c \in SliceCodes}

\* the values compared by eq
EqValues ==
    {Null, Num(1), Rat(1, 2), Str("a"), Bool(TRUE), Bool(FALSE),
     Arr(<<>>), Arr(<<Num(1)>>), Obj({}), Obj({<<"a", Num(1)>>})}

\* push a, push b, eq
EqCode(a, b) == <<Instr("push", <<a>>), Instr("push", <<b>>), Instr("eq", <<>>)>>

EqDocuments ==
    {NewProgram(parseJispOps(Arr(EqCode(a, b))), <<>>, EmptyMap, FALSE, FALSE, <<>>) :
        a \in EqValues, b \in EqValues}

\* try [[push a], [push b], [div]] "err" [[push name], [get]]
TryDiv(a, b, name) ==
    <<Instr("try", <<Arr(<<Instr("push", <<Num(a)>>), Instr("push", <<Num(b)>>),
                            Instr("div", <<>>)>>),
                     Str("err"),
                     Arr(<<Instr("push", <<Str(name)>>), Instr("get", <<>>)>>)>>)>>

Scenarios ==
    {<< <<Instr("push", <<f>>), Instr("call", <<>>), Instr("push", <<Num(5)>>)>>, EmptyMap >> :
        f \in {FnReturnInIf, FnReturnInFor, FnReturns}}
    \cup
    {<< <<Instr("push", <<f>>), Instr("call", <<>>), Instr("get", <<Str("v")>>)>>, v >> :
        f \in {FnSets, FnSetsByPath}, v \in InitialVariables}
    \cup
    {<< <<Instr("push", <<FnReads>>), Instr("call", <<>>)>>, v >> :
        v \in {EmptyMap, {<<"x", Num(0)>>}}}
    \cup
    {<< <<Instr("push", <<Bool(TRUE)>>),
          Instr("if", <<Arr(<<Instr("return", <<>>), Instr("push", <<Num(9)>>)>>)>>),
          Instr("push", <<Num(5)>>)>>, EmptyMap >>,
     << <<Instr("return", <<>>), Instr("push", <<Num(5)>>)>>, EmptyMap >>,
     << <<Instr("push", <<Bool(TRUE)>>), Instr("if", <<Arr(<<Instr("add", <<>>)>>)>>)>>,
        {<<"y", Num(0)>>} >>}
    \cup
    {<< <<Instr("push", <<Bool(TRUE)>>), Instr("if", <<b>>), Instr("get", <<Str("x")>>)>>, v >> :
        b \in {SetsX, SetsXByPath}, v \in {EmptyMap, {<<"x", Num(0)>>}}}
    \cup
    {<< <<Instr("noop", <<>>), i, Instr("get", <<Str("x")>>)>>, v >> :
        i \in {Instr("for", <<Str("i"), Arr(<<Num(1), Num(2)>>), SetsX>>),
               Instr("try", <<SetsX, Str("e")>>),
               Instr("while", <<Str("c"),
                                Arr(<<Instr("push", <<Num(1)>>), Instr("set", <<Str("x")>>),
                                      Instr("push", <<Bool(FALSE)>>), Instr("set", <<Str("c")>>)>>)>>)},
        v \in {{<<"c", Bool(TRUE)>>}, {<<"c", Bool(TRUE)>>, <<"x", Num(0)>>}}}
    \cup
    {<< <<Instr("push", <<Arr(<<Num(1)>>)>>), Instr("push", <<Str("i")>>),
          Instr("push", <<SetsXAndLeaves(Bool(TRUE))>>), Instr(o, <<>>),
          Instr("get", <<Str("x")>>)>>, EmptyMap >> :
        o \in {"map", "filter"}}
    \cup
    {<< <<Instr("push", <<Arr(<<Num(1)>>)>>), Instr("push", <<SetsXAndLeaves(Num(2))>>),
          Instr("push", <<Num(0)>>), Instr("reduce", <<>>),
          Instr("get", <<Str("x")>>)>>, EmptyMap >>}
    \cup
    {<< <<Instr("push", <<Arr(<<Num(1), Num(2)>>)>>), Instr("push", <<Arr(<<Num(3)>>)>>),
          Instr("push", <<Str("l")>>), Instr("push", <<Str("r")>>),
          Instr("push", <<Arr(b)>>), Instr("join", <<>>)>>, EmptyMap >> :
        b \in JoinBodies}
    \cup
    {<< <<Instr("push", <<Arr(<<Num(1), Num(2)>>)>>), Instr("push", <<Str("i")>>),
          Instr("push", <<Arr(b)>>), Instr(o, <<>>)>>, EmptyMap >> :
        b \in JoinBodies, o \in {"map", "filter"}}
    \cup
    {<< <<Instr("push", <<Arr(<<Num(1), Num(2)>>)>>), Instr("push", <<Arr(b)>>),
          Instr("push", <<Num(0)>>), Instr("reduce", <<>>)>>, EmptyMap >> :
        b \in {<<Instr("break", <<>>)>>, <<Instr("bogus", <<>>)>>}}
    \cup
    {<< <<Instr("push", <<Bool(b)>>), Instr("assert", a), Instr("push", <<Num(5)>>)>>,
        EmptyMap >> :
        b \in BOOLEAN, a \in {<<>>, <<Str("boom")>>}}
    \cup
    {<< TryDiv(a, 1 - a, n), EmptyMap >> : a \in {0, 1}, n \in {"e", "err"}}
    \cup
    {<< <<Instr("push", <<Arr(xb[1])>>), Instr("push", <<Str("i")>>),
          Instr("push", <<Arr(xb[2])>>), Instr("filter", <<>>)>>, EmptyMap >> :
        xb \in FilterInputs}
    \cup
    {<< <<Instr("while", <<Str("c"), Arr(b)>>), Instr("push", <<Num(5)>>)>>,
        {<<"c", Bool(TRUE)>>} >> :
        b \in LoopBodies({"break"}) \cup WhileContinues}
    \cup
    {<<WhileFails, {<<"c", Bool(TRUE)>>}>>}
    \cup
    {<<c, EmptyMap>> : c \in OutsideLoop}
    \cup
    {<< <<Instr("push", <<Num(1)>>), Instr("pop", <<Str(k)>>)>>, EmptyMap >> : k \in {"a/b", "b"}}
    \cup
    {<< <<Instr("for", <<Str("i"), Arr(<<Num(1), Num(2)>>), Arr(b)>>),
          Instr("push", <<Num(5)>>)>>,
        EmptyMap >> :
        b \in LoopBodies({"break", "continue"})}

\* the instructions that pop operands: <<name, arguments, operands needed>>
Pops ==
    {<<"pop", <<Str("x")>>, 1>>, <<"set", <<>>, 2>>, <<"set", <<Str("x")>>, 1>>,
     <<"set", <<Str("x"), Str("z")>>, 2>>, <<"get", <<>>, 1>>,
     <<"add", <<>>, 2>>, <<"sub", <<>>, 2>>, <<"mul", <<>>, 2>>, <<"div", <<>>, 2>>,
     <<"mod", <<>>, 2>>, <<"eq", <<>>, 2>>, <<"concat", <<>>, 2>>, <<"not", <<>>, 1>>,
     <<"raise", <<>>, 1>>, <<"assert", <<>>, 1>>, <<"call", <<>>, 1>>,
     <<"if", <<Arr(<<Instr("noop", <<>>)>>)>>, 1>>,
     <<"map", <<>>, 3>>, <<"filter", <<>>, 3>>, <<"reduce", <<>>, 3>>, <<"range", <<>>, 3>>,
     <<"join", <<>>, 5>>, <<"slice", <<>>, 2>>, <<"sort", <<>>, 1>>}

\* k values pushed, then the instruction, then one more
PopsCode(k, o) ==
    [i \in 1..k |-> Instr("push", <<Num(i)>>)]
      \o <<Instr(o[1], o[2]), Instr("push", <<Num(5)>>)>>

\* each of them on every stack too short for it, and on one just long enough
PopsDocuments ==
    {NewProgram(parseJispOps(Arr(PopsCode(ko[1], ko[2]))), <<>>, EmptyMap, FALSE, FALSE, <<>>) :
        ko \in {x \in (0..5) \X Pops : x[1] <= x[2][3]}}

\* push start, push stop, push step, range
RangeCode(start, stop, step) ==
    <<Instr("push", <<start>>), Instr("push", <<stop>>), Instr("push", <<step>>),
      Instr("range", <<>>)>>

\* the (start, stop, step) given to range
RangeOperands ==
    {<<Num(0), Num(3), Num(1)>>, <<Num(0), Num(3), Num(2)>>, <<Num(1), Num(2), Rat(1, 2)>>,
     <<Num(0 - 1), Num(1), Num(1)>>, <<Num(3), Num(0), Num(1)>>, <<Num(0), Num(0), Num(1)>>,
     <<Num(0), Num(3), Num(0)>>, <<Num(0), Num(3), Num(0 - 1)>>,
     <<Num(3), Num(0), Num(0 - 1)>>, <<Num(3), Num(0), Num(0)>>}

RangeDocuments ==
    {NewProgram(parseJispOps(Arr(RangeCode(x[1], x[2], x[3]))), <<>>, EmptyMap, FALSE, FALSE, <<>>) :
        x \in RangeOperands}

\* the arrays sorted: as a literal pushed just before, or built by range
SortCodes ==
    {<<Instr("push", <<v>>), Instr("sort", <<>>), Instr("pop", <<Str("x")>>)>> :
        v \in {Arr(<<Num(3), Num(1), Num(2)>>), Arr(<<Num(1), Num(2)>>),
               Arr(<<Str("b"), Str("a")>>), Arr(<<>>), Arr(<<Num(1), Str("a")>>),
               Arr(<<Null>>), Num(1)}}
    \cup
    {RangeCode(Num(0), Num(2), Num(1)) \o <<Instr("sort", <<>>)>>}

SortDocuments ==
    {NewProgram(parseJispOps(Arr(c)), <<>>, EmptyMap, h, FALSE, <<>>) :
        c \in SortCodes, h \in BOOLEAN}

\* the operands of the arithmetic programs, a pushed before b
Operands ==
    {<<Num(5), Num(7)>>, <<Num(7), Num(2)>>, <<Num(0 - 7), Num(2)>>, <<Num(7), Num(0 - 2)>>,
     <<Num(7), Num(0)>>, <<Num(0), Num(7)>>, <<Rat(1, 2), Num(2)>>, <<Num(5), Rat(3, 2)>>}

\* push a, push b, op, pop "x"
Arithmetic(a, b, o) ==
    <<Instr("push", <<a>>), Instr("push", <<b>>), Instr(o, <<>>), Instr("pop", <<Str("x")>>)>>

ArithmeticDocuments ==
    {NewProgram(parseJispOps(Arr(Arithmetic(ab[1], ab[2], o))), <<>>, EmptyMap, FALSE, FALSE, <<>>) :
        ab \in Operands, o \in {"add", "sub", "mul", "div", "mod"}}

\* the reversible-debugging example of the README: the sub-program
ReadmeCode ==
    <<Instr("push", <<Num(5)>>), Instr("pop", <<Str("a")>>),
      Instr("push", <<Num(10)>>), Instr("pop", <<Str("b")>>)>>

\* programs with a breakpoint on the first instruction, and inside a body
BreakpointDocuments ==
    {NewProgram(parseJispOps(Arr(ReadmeCode)), <<>>, EmptyMap, h, TRUE, <<b>>) :
        h \in BOOLEAN, b \in {<<Str("code"), Num(0)>>, <<Str("code"), Num(1)>>}}
    \cup
    {NewProgram(parseJispOps(Arr(<<Instr("push", <<Bool(TRUE)>>),
                                   Instr("if", <<Arr(<<Instr("push", <<Num(1)>>),
                                                       Instr("push", <<Num(2)>>)>>)>>),
                                   Instr("push", <<Num(3)>>)>>)),
                <<>>, EmptyMap, FALSE, TRUE, <<(<<Str("code"), Num(1), Num(0), Num(1)>>)>>)}

\* programs without code
EmptyDocuments ==
    {NewProgram(<<>>, st, v, h, FALSE, <<>>) :
        st \in {<<>>, <<Num(1)>>}, v \in InitialVariables, h \in BOOLEAN}

\* the documents the driver loads: code, variables, and the debugging flags
\* (with debug, a breakpoint on the second instruction)
Documents ==
    {NewProgram(parseJispOps(Arr(c)), <<>>, v, h, d,
                IF d THEN <<(<<Str("code"), Num(1)>>)>> ELSE <<>>) :
        c \in Codes, v \in InitialVariables, h \in BOOLEAN, d \in BOOLEAN}
    \cup
    {NewProgram(parseJispOps(Arr(s[1])), <<>>, s[2], h, d,
                IF d THEN <<(<<Str("code"), Num(1)>>)>> ELSE <<>>) :
        s \in Scenarios, h \in BOOLEAN, d \in BOOLEAN}
    \cup BreakpointDocuments
    \cup ArithmeticDocuments
    \cup SliceDocuments
    \cup EqDocuments
    \cup EmptyDocuments
    \cup PopsDocuments
    \cup RangeDocuments
    \cup SortDocuments

VARIABLES
    subs,        \* the values the sub-program has had on the driver's stack, oldest first
    ops,         \* the reflective operations applied, oldest first
    drv,         \* how the driver's last instruction ended: "ok", "error", "panic" or "hang"
    pidCounter,  \* the PID counter of the process manager
    programs,    \* the process table: <<pid, program object>> pairs
    objs,        \* the live program objects and the threads executing them
    actor        \* the program object whose thread took the last step

driverVars == <<subs, ops, drv>>

procVars == <<pidCounter, programs, objs, actor>>

vars == <<subs, ops, drv, pidCounter, programs, objs, actor>>

\* the sub-program as it is now, before the last operation, and as loaded
sub == Last(subs)

prev == subs[Len(subs) - 1]

loaded == subs[1]

last == Last(ops)

\* nothing has been spawned
NoProcesses ==
    /\ pidCounter = 0
    /\ programs = {}
    /\ objs = <<>>
    /\ actor = 0

Init ==
    /\ \E p \in Documents : subs = <<p>>
    /\ ops = <<>>
    /\ drv = "ok"
    /\ NoProcesses

\* one instruction of the driver applied to the program on its stack
Drive(name, r) ==
    /\ subs' = Append(subs, r.sub)
    /\ ops' = Append(ops, name)
    /\ drv' = r.res
    /\ UNCHANGED procVars

CanDrive == drv = "ok" /\ Len(ops) < MaxOps

RunOp == CanDrive /\ Drive("run", runOp(sub))

StepOp == CanDrive /\ Drive("step", stepOp(sub))

UndoOp == CanDrive /\ Drive("undo", undoOp(sub))

Next == RunOp \/ StepOp \/ UndoOp

Spec == Init /\ [][Next]_vars

(***************************************************************************)
(* Error handling and the reflective operations.                           *)
(***************************************************************************)
\* the instructions the last operation executed, innermost first
executed == sub.trace

\* C1: once the error slot of a program is set, none of its instructions
\* executes, under run, step or the execution of a nested body, until a try
\* has reset the slot; and between two values of the program the slot is
\* reset by run or step only if a try was executed.
C1_NoInstructionWhileError ==
    /\ \A i \in 1..Len(executed) : ~executed[i].errBefore
    /\ (Len(ops) > 0 /\ last \in {"run", "step"} /\ prev.Error # NoError /\ sub.Error = NoError)
          => \E i \in 1..Len(executed) : executed[i].name = "try"

\* a field of a serialized program, Omitted when the document has none
Field(doc, k) == IF MapHas(doc.o, k) THEN MapGet(doc.o, k) ELSE Omitted

\* the fields of a serialized program the claims compare
Observable(p) ==
    [stack |-> p.Stack,
     variables |-> p.Variables,
     call_stack |-> MapGet(Marshal(p).o, "call_stack"),
     error |-> Field(Marshal(p), "error")]

\* step finds no instruction left in the program
NoInstructionRemains(p) ==
    \/ Len(p.Code) = 0
    \/ p.CallStack # <<>> /\ Last(p.CallStack).Ip >= Len(Last(p.CallStack).Ops)

OnlySteps == Len(ops) > 0 /\ \A i \in 1..Len(ops) : ops[i] = "step"

\* C2: a program without breakpoints driven by step after step until no
\* instruction remains ends with the stack, variables, call stack and error
\* that run gives the same program, and no step fails on the way unless run
\* does.
C2_StepsEqualRun ==
    (OnlySteps /\ ~loaded.Debug) =>
        /\ (drv = "ok" /\ NoInstructionRemains(sub)) =>
              Observable(sub) = Observable(runOp(loaded).sub)
        /\ drv # "ok" => runOp(loaded).res = drv

ComparedFields == {"stack", "variables", "call_stack", "error"}

\* step has an instruction to execute in p
NextInstructionExists(p) ==
    /\ Len(p.Code) > 0
    /\ p.CallStack # <<>> => Last(p.CallStack).Ip < Len(Last(p.CallStack).Ops)

\* the last operation was a step that executed an instruction and recorded it
StepRecorded ==
    /\ Len(ops) > 0
    /\ last = "step"
    /\ drv = "ok"
    /\ prev.SaveHistory
    /\ NextInstructionExists(prev)

\* C3: when step has turned a program s with save_history (a freshly loaded
\* one included) into s', applying the last history entry of s' to the
\* serialized s' gives back the stack, variables, call_stack and error of the
\* serialized s.
C3_LastEntryRestores ==
    StepRecorded =>
        LET reverted == Apply(Last(sub.History).a, Marshal(sub))
        IN  /\ reverted.ok
            /\ \A k \in ComparedFields : Field(reverted.doc, k) = Field(Marshal(prev), k)

\* the program before the last two operations
beforeLastTwo == subs[Len(subs) - 2]

\* the last two operations were an undo, of a program with save_history and
\* a history, and a step
UndoneThenStepped ==
    /\ Len(ops) >= 2
    /\ ops[Len(ops) - 1] = "undo"
    /\ last = "step"
    /\ beforeLastTwo.SaveHistory
    /\ Len(beforeLastTwo.History) > 0

\* C4: undo followed by step, on a program with save_history and a history,
\* yields a program with the stack, variables, call_stack and error it had
\* before the undo.
C4_UndoThenStepRestores ==
    UndoneThenStepped =>
        /\ drv = "ok"
        /\ Observable(sub) = Observable(beforeLastTwo)

\* the program on the driver's stack was halted part-way through its code,
\* by a breakpoint under run or after a step
Halted ==
    /\ Len(ops) > 0
    /\ last \in {"run", "step"}
    /\ drv = "ok"
    /\ sub.Error = NoError
    /\ sub.CallStack # <<>>
    /\ Last(sub.CallStack).Ip < Len(Last(sub.CallStack).Ops)

\* how a resumed execution ends, and with which stack, variables and error
Outcome(r) ==
    [sig |-> r.sig, stack |-> r.p.Stack, variables |-> r.p.Variables,
     error |-> Field(Marshal(r.p), "error")]

\* C5: a program halted part-way, serialized, parsed back and resumed ends
\* with the stack, variables and error that resuming the program in memory,
\* without the round trip, ends with.
C5_ResumeAfterRoundTrip ==
    Halted => Outcome(Run(popSubProgram(sub))) = Outcome(Run(sub))

\* the entries of the instructions executed directly in block seg (0 the try
\* body, 2 the catch body) of the try logged as entry j
BlockEntries(j, seg) ==
    {i \in executed[j].first .. (j - 1) :
        /\ Len(executed[i].path) = Len(executed[j].path) + 2
        /\ SubSeq(executed[i].path, 1, Len(executed[j].path) + 1)
             = Append(executed[j].path, Num(seg))}

Tries == {j \in 1..Len(executed) : executed[j].name = "try" /\ Len(executed[j].args) \in 2..3}

\* the body instructions of try j that set the error slot
BodyErrors(j) == {i \in BlockEntries(j, 0) : executed[i].errAfter /\ ~executed[i].errBefore}

catchVar(j) == executed[j].args[2].s

\* the executions of the first instruction of the catch body of try j
CatchStarts(j) ==
    {k \in BlockEntries(j, 2) : executed[k].path[Len(executed[k].path)] = Num(0)}

\* C9: when the body of a try sets the error with message m, the rest of the
\* body does not execute, variables[catch_var] is m when the catch body
\* starts, the error is null then, the catch body (when given and not empty)
\* runs once, and the try returns normally; when the body sets no error, the
\* catch body does not run and catch_var is not written.
C9_TryCatches ==
    \A j \in Tries :
        IF BodyErrors(j) # {}
        THEN \E i \in BodyErrors(j) :
                /\ \A k \in BlockEntries(j, 0) : k <= i
                /\ \A k \in CatchStarts(j) :
                       /\ MapHas(executed[k].varsBefore, catchVar(j))
                       /\ MapGet(executed[k].varsBefore, catchVar(j)) = Str(executed[i].msgAfter)
                       /\ ~executed[k].errBefore
                /\ Cardinality(CatchStarts(j)) <= 1
                /\ Len(executed[j].args) = 3 /\ Len(executed[j].args[3].a) > 0
                      => CatchStarts(j) # {}
                /\ MapHas(executed[j].varsAfter, catchVar(j))
                /\ executed[j].sig \in {"ok", "breakpoint"}
        ELSE LET before == executed[j].varsBefore
                 after == executed[j].varsAfter
             IN  /\ BlockEntries(j, 2) = {}
                 /\ MapHas(after, catchVar(j)) = MapHas(before, catchVar(j))
                 /\ MapHas(before, catchVar(j))
                       => MapGet(after, catchVar(j)) = MapGet(before, catchVar(j))

ControlSignals == {"break", "continue", "return", "exit"}

\* C10: a break, continue, return or exit returned by an instruction of the
\* body or of the catch body of a try is what the try itself returns to the
\* loop, call or driver around it.
C10_SignalsPassThroughTry ==
    \A j \in Tries :
        \A i \in BlockEntries(j, 0) \cup BlockEntries(j, 2) :
            executed[i].sig \in ControlSignals => executed[j].sig = executed[i].sig

(***************************************************************************)
(* Calls, returns and breakpoints.                                         *)
(***************************************************************************)
IsPrefix(a, b) == Len(a) <= Len(b) /\ SubSeq(b, 1, Len(a)) = a

\* the place of the innermost "function_call" segment of a path, 0 if none
LastCall(path) ==
    LET at == {k \in 1..Len(path) : path[k] = Str("function_call")}
    IN  IF at = {} THEN 0 ELSE CHOOSE k \in at : \A m \in at : m <= k

\* the executions of a return instruction inside, and outside, a called body
ReturnsInCall ==
    {i \in 1..Len(executed) :
        executed[i].name = "return" /\ executed[i].args = <<>> /\ LastCall(executed[i].path) > 0}

ReturnsOutsideCall ==
    {i \in 1..Len(executed) :
        executed[i].name = "return" /\ executed[i].args = <<>> /\ LastCall(executed[i].path) = 0}

\* the entries of the call instruction whose body the path is in, after entry i
CallEntriesAfter(i, path) ==
    {j \in (i + 1)..Len(executed) :
        /\ executed[j].name = "call"
        /\ executed[j].path = SubSeq(path, 1, LastCall(path) - 1)}

\* C11: a return executed anywhere inside a call-invoked body, nested if,
\* while, for and try bodies included, ends the call: no instruction of the
\* called body starts after it, the call returns normally with the caller's
\* ip on the instruction after it, and no error is recorded.
C11_ReturnEndsCall ==
    \A i \in ReturnsInCall :
        LET path == executed[i].path
            body == SubSeq(path, 1, LastCall(path))
            calls == CallEntriesAfter(i, path)
        IN  /\ calls # {}
            /\ LET j == CHOOSE c \in calls : \A d \in calls : c <= d
                IN  /\ \A k \in (i + 1)..(j - 1) :
                           ~(executed[k].first > i /\ IsPrefix(body, executed[k].path))
                    /\ executed[j].sig \in {"ok", "breakpoint"}
                    /\ ~executed[j].errAfter
                    /\ executed[j].ipAfter = executed[j].ipBefore + 1
                    /\ executed[j].depthAfter = executed[j].depthBefore

\* C12: a return executed with no call-invoked frame on the call stack, in
\* the root body or in an if, while, for or try body nested in it, yields no
\* Return signal and records an error.
C12_ReturnOutsideCallIsError ==
    \A i \in ReturnsOutsideCall :
        /\ executed[i].sig = "ok"
        /\ executed[i].errAfter
        /\ executed[i].msgAfter
              = "return error: return can only be called within a function execution context"

\* the driver has applied one run to a freshly loaded program with debug enabled
FirstRunWithDebug == Len(ops) = 1 /\ last = "run" /\ loaded.Debug

IsBreakpoint(p, path) == \E b \in 1..Len(p.Breakpoints) : pathsEqual(path, p.Breakpoints[b])

\* the instructions after which the breakpoint check stopped the execution
BreakpointHits ==
    {i \in 1..Len(executed) : executed[i].sig = "breakpoint" /\ executed[i].name # "breakpoint"}

\* C13: with debug enabled, run halts before the instruction at a breakpoint
\* path executes, in the root body (index 0 included) and in nested bodies:
\* no instruction at a breakpoint path has executed when run returns, and
\* once an instruction was followed by a breakpoint, run returns without
\* error, nothing more has executed, and the current instruction path is a
\* breakpoint.
C13_RunHaltsBeforeBreakpoint ==
    FirstRunWithDebug =>
        /\ \A i \in 1..Len(executed) : ~IsBreakpoint(loaded, executed[i].path)
        /\ \A i \in BreakpointHits :
               /\ i = Len(executed)
               /\ drv = "ok"
               /\ sub.Error = NoError
               /\ IsBreakpoint(loaded, currentInstructionPath(sub))

\* the sub-program of the README's reversible-debugging example is loaded
\* (code, debug, a breakpoint on ["code", 1])
ReadmeLoaded ==
    /\ loaded.Code = parseJispOps(Arr(ReadmeCode))
    /\ loaded.Debug
    /\ loaded.Breakpoints = <<(<<Str("code"), Num(1)>>)>>

IpPathIs(i) == currentInstructionPath(sub) = <<Str("code"), Num(i)>>

VariableIs(name, v) == MapHas(sub.Variables, name) /\ MapGet(sub.Variables, name) = v

\* C14, as claimed: in the README's example, after run the ip path is
\* ["code", 1], variables.a is 5 and variables.b is absent; after one step the
\* ip path is ["code", 2]; after undo the ip path is ["code", 1] and
\* variables.a is 5.
C14_ReadmeExampleAsClaimed ==
    ReadmeLoaded =>
        /\ ops = <<"run">> =>
               IpPathIs(1) /\ VariableIs("a", Num(5)) /\ ~MapHas(sub.Variables, "b")
        /\ ops = <<"run", "step">> => IpPathIs(2)
        /\ ops = <<"run", "step", "undo">> => IpPathIs(1) /\ VariableIs("a", Num(5))

\* C14, amended: in the README's example (with save_history), after run the
\* ip path is ["code", 1] and variables.a and variables.b are absent, the
\* instruction at the breakpoint not having executed; after one step the ip
\* path is ["code", 2] and variables.a is 5; after undo the ip path is
\* ["code", 1] and variables.a is absent again.
C14_ReadmeExample ==
    (ReadmeLoaded /\ loaded.SaveHistory) =>
        /\ ops = <<"run">> =>
               /\ drv = "ok" /\ IpPathIs(1)
               /\ ~MapHas(sub.Variables, "a") /\ ~MapHas(sub.Variables, "b")
        /\ ops = <<"run", "step">> =>
               /\ drv = "ok" /\ IpPathIs(2)
               /\ VariableIs("a", Num(5)) /\ ~MapHas(sub.Variables, "b")
        /\ ops = <<"run", "step", "undo">> =>
               /\ drv = "ok" /\ IpPathIs(1)
               /\ ~MapHas(sub.Variables, "a") /\ ~MapHas(sub.Variables, "b")

C14_Witness ==
    /\ ReadmeLoaded
    /\ loaded.SaveHistory
    /\ ops = <<"run", "step", "undo">>
    /\ drv = "ok"
    /\ IpPathIs(1)

(***************************************************************************)
(* Scoping of variables.                                                   *)
(***************************************************************************)
\* the name a set or get instruction with one argument is about: the string
\* path, or the first element of an array path; "" when it has none
NameOf(args) ==
    IF Len(args) # 1 THEN ""
    ELSE IF args[1].t = "str" THEN args[1].s
    ELSE IF args[1].t = "arr" /\ Len(args[1].a) > 0 /\ args[1].a[1].t = "str"
    THEN args[1].a[1].s
    ELSE ""

\* the path addresses the variable itself, not a place inside its value
WholeVariable(args) == args[1].t = "str" \/ Len(args[1].a) = 1

\* the set instructions that stored a value
Sets ==
    {i \in 1..Len(executed) :
        /\ executed[i].name = "set"
        /\ NameOf(executed[i].args) # ""
        /\ executed[i].sig \in {"ok", "breakpoint"}
        /\ ~executed[i].raised}

\* the get instructions of a whole variable
Gets ==
    {i \in 1..Len(executed) :
        /\ executed[i].name = "get"
        /\ NameOf(executed[i].args) # ""
        /\ WholeVariable(executed[i].args)}

\* the set instructions executed during instruction j, in its bodies
SetsWithin(j) == {i \in Sets : executed[j].first <= i /\ i < j /\ IsPrefix(executed[j].path, executed[i].path)}

\* the segments of the path of i below instruction j
Below(j, i) == SubSeq(executed[i].path, Len(executed[j].path) + 1, Len(executed[i].path))

\* a variable map holds the name
Binds(scope, name) == MapHas(scope, name)

Calls == {j \in 1..Len(executed) : executed[j].name = "call" /\ executed[j].sig \in {"ok", "breakpoint"}}

\* C15: a variable that does not exist before a call and is bound by set
\* (string path or array path) in the called body is, after the call
\* returns, neither in the caller's frame map nor in the global variables.
C15_CallLocalsNotVisible ==
    \A j \in Calls :
        \A i \in SetsWithin(j) :
            LET name == NameOf(executed[i].args)
                before == executed[j].scopesBefore
            IN  (/\ LastCall(executed[i].path) = Len(executed[j].path) + 1
                 /\ \A k \in 1..Len(before) : ~Binds(before[k], name))
                => /\ ~Binds(executed[j].scopesAfter[1], name)
                   /\ ~Binds(executed[j].varsAfter, name)

\* entry g is the instruction right after the one of entry b, in the same body
Follows(g, b) ==
    LET pg == executed[g].path
        pb == executed[b].path
    IN  /\ b = g - 1
        /\ b >= 1
        /\ Len(pg) = Len(pb)
        /\ Front(pg) = Front(pb)
        /\ Last(pg) = Num(Last(pb).n + 1)

AllNumbers(segments) == \A k \in 1..Len(segments) : segments[k].t = "num"

BodySegments == {Str("map_ops_from_stack"), Str("filter_ops_from_stack"), Str("reduce_ops_from_stack")}

\* the set instructions of the name in the bodies of block instruction b:
\* those of an if, while, for or try (nested ones included), and those
\* directly in the body of a map, filter or reduce
SetsInBlock(b, name) ==
    {i \in SetsWithin(b) : NameOf(executed[i].args) = name /\ AllNumbers(Below(b, i))}

SetsInCollectionBody(b, name) ==
    {i \in SetsWithin(b) :
        /\ NameOf(executed[i].args) = name
        /\ Len(Below(b, i)) = 2
        /\ Below(b, i)[1] \in BodySegments}

Latest(S) == CHOOSE i \in S : \A k \in S : k <= i

\* the get of entry g pushed the value stored by the latest set of S
ReadsLatest(g, S) ==
    /\ ~executed[g].raised
    /\ executed[g].topAfter = executed[Latest(S)].topBefore

\* C16: a variable bound by set inside an if, while, for or try body is
\* visible in the enclosing frame after the body finishes: a get of the name
\* placed right after the operation pushes the value set in the body.
C16_BlockBindingsVisible ==
    \A g \in Gets :
        \A b \in 1..(g - 1) :
            (/\ Follows(g, b)
             /\ executed[b].name \in {"if", "while", "for", "try"}
             /\ SetsInBlock(b, NameOf(executed[g].args)) # {})
            => ReadsLatest(g, SetsInBlock(b, NameOf(executed[g].args)))

\* C17: the body of map, filter and reduce shares the enclosing frame's
\* variable map: a variable bound by set inside such a body is bound in the
\* enclosing frame, and a get of the name placed right after the operation
\* pushes the value set in the body.
C17_CollectionBodiesShareScope ==
    \A g \in Gets :
        \A b \in 1..(g - 1) :
            (/\ Follows(g, b)
             /\ executed[b].name \in {"map", "filter", "reduce"}
             /\ SetsInCollectionBody(b, NameOf(executed[g].args)) # {})
            => /\ ReadsLatest(g, SetsInCollectionBody(b, NameOf(executed[g].args)))
               /\ Binds(executed[b].scopesAfter[1], NameOf(executed[g].args))

\* the value the scopes in force give a name: that of the innermost map that
\* binds it
Bound(scopes, name) == \E k \in 1..Len(scopes) : Binds(scopes[k], name)

Innermost(scopes, name) ==
    LET k == CHOOSE m \in 1..Len(scopes) :
                 Binds(scopes[m], name) /\ \A n \in 1..(m - 1) : ~Binds(scopes[n], name)
    IN  MapGet(scopes[k], name)

\* C18: a get of a variable name, given as a string path or as an array path
\* whose only element is the name, pushes the binding of the innermost frame
\* that binds the name, the frames being searched from the innermost to the
\* outermost and the global variables last.
C18_GetResolvesInnermost ==
    \A g \in Gets :
        Bound(executed[g].scopesBefore, NameOf(executed[g].args))
        => /\ ~executed[g].raised
           /\ executed[g].topAfter
                = Innermost(executed[g].scopesBefore, NameOf(executed[g].args))

(***************************************************************************)
(* Serialization round trip.                                               *)
(***************************************************************************)
\* the ip and the base path of every frame of cs2 are those of cs1
SameFramePositions(cs1, cs2) ==
    /\ Len(cs1) = Len(cs2)
    /\ \A i \in 1..Len(cs1) :
          /\ cs2[i].Ip = cs1[i].Ip
          /\ cs2[i].BasePath = cs1[i].BasePath

\* C19: serializing the sub-program, parsing the document and serializing
\* the parsed program gives the same document (object fields are a set, so
\* their order does not count), and every frame of the parsed program, on
\* the call stack and in the error's call-stack snapshot, has the ip and the
\* base path of the frame it was written from.
C19_RoundTrip ==
    LET d == Marshal(sub)
        q == jispProgramFromBytes(d)
    IN  /\ Marshal(q) = d
        /\ SameFramePositions(sub.CallStack, q.CallStack)
        /\ (sub.Error = NoError) = (q.Error = NoError)
        /\ sub.Error # NoError =>
              SameFramePositions(sub.Error[1].call_stack_snapshot,
                                 q.Error[1].call_stack_snapshot)

\* a program with a frame on its call stack, a history, and an error raised
\* in a nested body (the snapshot holds a frame with a nested base path)
C19_Witness ==
    /\ Len(ops) > 0
    /\ sub.CallStack # <<>>
    /\ sub.History # <<>>
    /\ sub.Error # NoError
    /\ \E i \in 1..Len(sub.Error[1].call_stack_snapshot) :
          Len(sub.Error[1].call_stack_snapshot[i].BasePath) > 1

(***************************************************************************)
(* The instruction pointer.                                                *)
(***************************************************************************)
\* every instruction the last operation executed left the ip of its frame
\* one further
EveryInstructionAdvances ==
    \A i \in 1..Len(sub.trace) : sub.trace[i].ipAfter = sub.trace[i].ipBefore + 1

\* the last operation was a step that executed an instruction and gave the
\* program back
StepExecuted == ops # <<>> /\ last = "step" /\ drv = "ok" /\ sub.trace # <<>>

\* the step left the depth of the call stack alone and the top frame's ip
\* one further
SameDepthNextIp ==
    /\ prev.CallStack # <<>>
    /\ Len(sub.CallStack) = Len(prev.CallStack)
    /\ Last(sub.CallStack).Ip = Last(prev.CallStack).Ip + 1

\* C20 as stated: every executed instruction advances the ip of its frame by
\* exactly 1, and after a step that executes an instruction the top frame's
\* ip is 1 greater than before and the call stack has the same depth.
C20_IpAdvancesAsClaimed ==
    /\ EveryInstructionAdvances
    /\ StepExecuted => SameDepthNextIp

\* C20, amended: every executed instruction (one that succeeds, fails, names
\* an unknown operation or yields a signal) advances the ip of its frame by
\* exactly 1; after a step that executes an instruction the top frame's ip is
\* 1 greater than before and the call stack has the same depth, unless the
\* call stack was empty before the step: then the step has pushed the root
\* frame, the depth is 1 and the ip is 1.
C20_IpAdvances ==
    /\ EveryInstructionAdvances
    /\ StepExecuted =>
          IF prev.CallStack = <<>>
          THEN Len(sub.CallStack) = 1 /\ sub.CallStack[1].Ip = 1
          ELSE SameDepthNextIp

\* a step on a program with a frame has executed an instruction that set the
\* error slot
C20_Witness ==
    /\ StepExecuted
    /\ prev.CallStack # <<>>
    /\ \E i \in 1..Len(sub.trace) : sub.trace[i].raised /\ sub.trace[i].errAfter

(***************************************************************************)
(* Frames: the range of the ip, and the frames a body pushes and pops.     *)
(***************************************************************************)
\* every <<ip, len>> of fs has 0 <= ip <= len
InRange(fs) == \A i \in 1..Len(fs) : 0 <= fs[i][1] /\ fs[i][1] <= fs[i][2]

\* C21: every frame of the sub-program, as loaded, between two reflective
\* operations and after each instruction it executed (the frames of nested
\* bodies included), has 0 <= ip <= len(ops), and every instruction executed
\* was fetched at an ip below len(ops).
C21_IpInRange ==
    /\ InRange(FramePositions(sub))
    /\ \A i \in 1..Len(sub.trace) :
          /\ InRange(sub.trace[i].framesAfter)
          /\ 0 <= sub.trace[i].ipBefore
          /\ sub.trace[i].ipBefore < sub.trace[i].lenOps

\* an instruction has left a nested frame exhausted (ip = len(ops)) above a
\* frame that is not
C21_Witness ==
    \E i \in 1..Len(sub.trace) :
        LET fs == sub.trace[i].framesAfter
        IN  /\ Len(fs) > 1
            /\ fs[Len(fs)][1] = fs[Len(fs)][2]
            /\ fs[1][1] < fs[1][2]

\* the operations that execute a body
BodyOperations == {"if", "while", "for", "try", "map", "filter", "reduce", "join", "call"}

\* the frames after an instruction are the frames before it, the ip of the
\* frame it was fetched from moved on by one
FramesKept(e) ==
    /\ Len(e.framesAfter) = Len(e.framesBefore)
    /\ \A j \in 1..Len(e.framesBefore) :
          e.framesAfter[j] = IF j = Len(e.framesBefore)
                             THEN <<e.framesBefore[j][1] + 1, e.framesBefore[j][2]>>
                             ELSE e.framesBefore[j]

\* the instructions of entry i's bodies: the entries nested in it
Nested(t, i) == {k \in t[i].first..(i - 1) : t[k].depthBefore = t[i].depthBefore + 1}

\* C22: when an instruction that executes bodies (if, while, for, try, map,
\* filter, reduce, join, call) has finished, normally, with an error recorded
\* or with a control signal, the call stack holds the frames it held before
\* the instruction: every frame pushed for a body has been popped, and
\* nothing else.
C22_FramesRestored ==
    \A i \in 1..Len(sub.trace) :
        sub.trace[i].name \in BodyOperations => FramesKept(sub.trace[i])

\* a body executed in a frame of its own has ended with an error recorded or
\* with a signal, below another frame, and its operation has finished
C22_Witness ==
    \E i \in 1..Len(sub.trace) :
        /\ sub.trace[i].name \in BodyOperations
        /\ Nested(sub.trace, i) # {}
        /\ sub.trace[i].depthBefore > 1
        /\ \E k \in Nested(sub.trace, i) :
              sub.trace[k].raised \/ sub.trace[k].sig # "ok"

(***************************************************************************)
(* The error record.                                                       *)
(***************************************************************************)
\* entry i of trace t is an instruction that failed: it set the error slot
\* and no instruction nested in it did
Failed(t, i) ==
    /\ t[i].raised
    /\ t[i].errAfter
    /\ \A k \in t[i].first..(i - 1) : ~t[k].raised

\* C23: when an instruction fails (its handler returns an error, it is an
\* unknown operation, a raise, or an assert of false), the error slot holds
\* the instruction's name, the path of the instruction itself (base_path
\* followed by its index), and a copy of the stack; a raise records the
\* message it popped.
C23_ErrorNamesFailingInstruction ==
    \A i \in 1..Len(sub.trace) :
        Failed(sub.trace, i) =>
            /\ sub.trace[i].errorAfter[1] = sub.trace[i].name
            /\ sub.trace[i].errorAfter[2] = sub.trace[i].path
            /\ sub.trace[i].errorAfter[3] = sub.trace[i].stackAfter
            /\ sub.trace[i].name = "raise" /\ sub.trace[i].topBefore.t = "str"
                  => sub.trace[i].msgAfter = sub.trace[i].topBefore.s

\* the loaded program has code c and has been executed by a first run or step
Executed(c) == loaded.Code = parseJispOps(Arr(c)) /\ Len(ops) >= 1 /\ ops[1] \in {"run", "step"}

\* the program after its first run or step
first == subs[2]

\* the catch body of the try has been executed
CatchRan(p) == \E i \in 1..Len(p.trace) : Len(p.trace[i].path) = 4 /\ p.trace[i].path[3] = Num(2)

\* C24 as stated: try [[push 0],[push 1],[div]] "err" [[push "e"],[get]]
\* ends with "division by zero" on top of the stack and in variables.err, and
\* with no error.
C24_TryDivisionAsClaimed ==
    Executed(TryDiv(0, 1, "e")) =>
        /\ Top(first) = Str("division by zero")
        /\ MapHas(first.Variables, "err")
        /\ MapGet(first.Variables, "err") = Str("division by zero")
        /\ first.Error = NoError

\* C24, amended: try [[push 0],[push 1],[div]] "err" [[push "e"],[get]]
\* divides 0 by 1: it ends with 0 on top of the stack, the catch body not
\* run, no variables.err and no error.  With the operands pushed the other
\* way round and the catch body [[push "err"],[get]] it ends, after the catch
\* body has run, with "div error: division by zero" on top of the stack and
\* in variables.err, and with no error.
C24_TryDivision ==
    /\ Executed(TryDiv(0, 1, "e")) =>
          /\ Top(first) = Num(0)
          /\ ~CatchRan(first)
          /\ ~MapHas(first.Variables, "err")
          /\ first.Error = NoError
    /\ Executed(TryDiv(1, 0, "err")) =>
          /\ CatchRan(first)
          /\ Top(first) = Str("div error: division by zero")
          /\ MapHas(first.Variables, "err")
          /\ MapGet(first.Variables, "err") = Str("div error: division by zero")
          /\ first.Error = NoError

\* the try whose body divides by zero has been executed, and an undo or a
\* second run has followed
C24_Witness == Executed(TryDiv(1, 0, "err")) /\ CatchRan(first) /\ Len(ops) = 2

(***************************************************************************)
(* Loops: break and continue.                                              *)
(***************************************************************************)
\* entry i of trace t is a for or a while whose body instruction k (an
\* instruction of the body itself: a break or continue, or an if that passed
\* one on) ended with signal s
LoopSignal(t, i, k, s) ==
    /\ t[i].name \in {"for", "while"}
    /\ k \in Nested(t, i)
    /\ t[k].sig = s

\* the instruction executed after entry i in the same frame, if there is one
Following(t, i) ==
    {j \in (i + 1)..Len(t) :
        /\ t[j].depthBefore = t[i].depthBefore
        /\ t[j].first = i + 1
        /\ t[j].path = Append(Front(t[i].path), Num(t[i].ipAfter))}

Starts(t, i) == {k \in Nested(t, i) : t[k].ipBefore = 0}

\* the last instruction of the j-th execution of the body of entry i
IterationEnd(t, i, j) ==
    IF j = Cardinality(Starts(t, i)) THEN i - 1
    ELSE t[CHOOSE k \in Starts(t, i) : Cardinality({k2 \in Starts(t, i) : k2 < k}) = j].first - 1

\* the elements of xs at the indices in keep, in their order in xs
RECURSIVE Subsequence(_, _, _)
Subsequence(xs, keep, j) ==
    IF j > Len(xs) THEN <<>>
    ELSE (IF j \in keep THEN <<xs[j]>> ELSE <<>>) \o Subsequence(xs, keep, j + 1)

\* entry i is a filter that went through its input, one execution of the
\* body for each element, without an error
Filtered(t, i) ==
    /\ t[i].name = "filter"
    /\ ~t[i].errBefore /\ ~t[i].errAfter
    /\ t[i].sig \in {"ok", "breakpoint"}
    /\ Len(t[i].stackBefore) >= 3
    /\ t[i].stackBefore[Len(t[i].stackBefore) - 2].t = "arr"
    /\ Cardinality(Starts(t, i)) = Len(t[i].stackBefore[Len(t[i].stackBefore) - 2].a)

\* C28: filter replaces its three operands by the array of exactly those
\* elements of the input, in order and with multiplicity, null elements
\* included, for which the body left true on the stack.
C28_FilterKeepsTrue ==
    \A i \in 1..Len(sub.trace) :
        LET t == sub.trace
            n == Len(t[i].stackBefore)
            xs == t[i].stackBefore[n - 2].a
        IN  Filtered(t, i) =>
               /\ Len(t[i].stackAfter) = n - 2
               /\ t[i].topAfter.t = "arr"
               /\ t[i].topAfter.a =
                     Subsequence(xs, {j \in 1..Len(xs) :
                                        t[IterationEnd(t, i, j)].topAfter = Bool(TRUE)}, 1)

(***************************************************************************)
(* slice.                                                                  *)
(***************************************************************************)
\* what slice is to do to stack st whose topmost values are the operands
\* <<input, start, end>> (end Null for none), count of them: the stack with
\* input[start..end) in their place if 0 <= start <= end <= len, and
\* otherwise an error
SliceDone(e, input, start, end, count) ==
    IF start.d = 1 /\ end.d = 1 /\ 0 <= start.n /\ start.n <= end.n /\ end.n <= length(input)
    THEN /\ ~e.raised
         /\ e.stackAfter = Append(SubSeq(e.stackBefore, 1, Len(e.stackBefore) - count),
                                   sliced(input, start.n, end.n))
    ELSE e.raised /\ e.errAfter

\* C29: slice with (input, start) topmost, input a string or an array,
\* replaces the two by input[start..len), whatever lies beneath them; with
\* (input, start, end) topmost it replaces the three by input[start..end);
\* and it records an error unless 0 <= start <= end <= len.
C29_Slice ==
    \A i \in 1..Len(sub.trace) :
        LET e == sub.trace[i]
            st == e.stackBefore
            n == Len(st)
        IN  (e.name = "slice" /\ e.args = <<>> /\ n >= 2 /\ st[n].t = "num") =>
               /\ st[n - 1].t \in {"str", "arr"}
                     => SliceDone(e, st[n - 1], st[n], Num(length(st[n - 1])), 2)
               /\ (n >= 3 /\ st[n - 1].t = "num" /\ st[n - 2].t \in {"str", "arr"})
                     => SliceDone(e, st[n - 2], st[n - 1], st[n], 3)

(***************************************************************************)
(* eq.                                                                     *)
(***************************************************************************)
\* C30: push a, push b, eq, run, never aborts the interpreter: it ends with
\* true on the two values' place if a and b are equal as JSON values and
\* with false if they are not, for scalars, null, arrays and objects alike;
\* and so does every eq executed on a stack of two values or more.
C30_Eq ==
    /\ ops = <<"run">> =>
          \A a \in EqValues, b \in EqValues :
              Executed(EqCode(a, b)) =>
                  /\ drv = "ok"
                  /\ first.Stack = <<Bool(a = b)>>
                  /\ first.Error = NoError
    /\ \A i \in 1..Len(sub.trace) :
          LET e == sub.trace[i]
              n == Len(e.stackBefore)
          IN  (e.name = "eq" /\ e.args = <<>> /\ n >= 2) =>
                 /\ ~e.raised
                 /\ e.stackAfter = Append(SubSeq(e.stackBefore, 1, n - 2),
                                           Bool(e.stackBefore[n - 1] = e.stackBefore[n]))

(***************************************************************************)
(* Arithmetic.                                                             *)
(***************************************************************************)
\* r is the number a op b: stated on numerators and denominators
\* (r = n/d in lowest terms); a mod b is the r with a - r a whole multiple
\* of b, |r| < |b|, and the sign of a
IsResult(o, a, b, r) ==
    /\ r.t = "num" /\ r.d > 0 /\ GCD(Abs(r.n), r.d) = 1
    /\ CASE o = "add" -> r.n * a.d * b.d = (a.n * b.d + b.n * a.d) * r.d
          [] o = "sub" -> r.n * a.d * b.d = (a.n * b.d - b.n * a.d) * r.d
          [] o = "mul" -> r.n * a.d * b.d = a.n * b.n * r.d
          [] o = "div" -> r.n * a.d * b.n = a.n * b.d * r.d
          [] o = "mod" -> /\ ((a.n * r.d - r.n * a.d) * b.d) % (a.d * r.d * Abs(b.n)) = 0
                          /\ Abs(r.n) * b.d < Abs(b.n) * r.d
                          /\ r.n * a.n >= 0

\* entry e is an arithmetic instruction that found two numbers on top of the stack
OnTwoNumbers(e) ==
    /\ e.name \in {"add", "sub", "mul", "div", "mod"}
    /\ e.args = <<>>
    /\ Len(e.stackBefore) >= 2
    /\ e.stackBefore[Len(e.stackBefore)].t = "num"
    /\ e.stackBefore[Len(e.stackBefore) - 1].t = "num"

\* C26: add, sub, mul, div and mod on numbers a and b, a pushed before b, pop
\* both and push a + b, a - b, a * b, a / b and a mod b and record no error; div and mod with
\* b = 0 record an error and push nothing (both operands are gone); and
\* push 5, push 7, add, pop "x" run to its end leaves variables.x = 12 and
\* an empty stack.
C26_Arithmetic ==
    /\ \A i \in 1..Len(sub.trace) :
          LET e == sub.trace[i]
              n == Len(e.stackBefore)
          IN  OnTwoNumbers(e) =>
                 IF e.name \in {"div", "mod"} /\ e.stackBefore[n].n = 0
                 THEN /\ e.raised /\ e.errAfter
                      /\ e.stackAfter = SubSeq(e.stackBefore, 1, n - 2)
                 ELSE /\ ~e.raised
                      /\ Len(e.stackAfter) = n - 1
                      /\ SubSeq(e.stackAfter, 1, n - 2) = SubSeq(e.stackBefore, 1, n - 2)
                      /\ IsResult(e.name, e.stackBefore[n - 1], e.stackBefore[n], e.stackAfter[n - 1])
    /\ (loaded.Code = parseJispOps(Arr(Arithmetic(Num(5), Num(7), "add")))
          /\ Len(ops) >= 1 /\ ops[1] = "run")
            => first.Stack = <<>> /\ first.Variables = {<<"x", Num(12)>>} /\ first.Error = NoError

\* a division with a fraction for its result and a modulo with a negative
\* dividend have been executed, and so has a division by zero
C26_Witness ==
    /\ \E i \in 1..Len(sub.trace) :
          /\ OnTwoNumbers(sub.trace[i])
          /\ \/ sub.trace[i].name = "div" /\ ~sub.trace[i].raised /\ sub.trace[i].topAfter.d > 1
             \/ sub.trace[i].name = "mod" /\ ~sub.trace[i].raised /\ sub.trace[i].topAfter.n < 0
             \/ sub.trace[i].name = "div" /\ sub.trace[i].raised
    /\ Len(ops) = 2

(***************************************************************************)
(* while with a failing body.                                              *)
(***************************************************************************)
\* C31: a while whose body instruction fails while the condition variable is
\* still true stops iterating: the driver's run or step returns, with the
\* error recorded on the program.
C31_WhileStopsOnError ==
    (Executed(WhileFails) /\ Len(ops) = 1) => drv = "ok" /\ sub.Error # NoError

(***************************************************************************)
(* break and continue outside any loop.                                    *)
(***************************************************************************)
\* C32: when run drives a program and an instruction of the root body ends
\* with break or continue (no loop encloses it), the program has an error
\* recorded when run returns.
C32_BreakOutsideLoopIsError ==
    (Len(ops) >= 1 /\ ops[1] = "run") =>
        \A i \in 1..Len(first.trace) :
            (first.trace[i].depthBefore = 1 /\ first.trace[i].sig \in {"break", "continue"})
                => first.Error # NoError

(***************************************************************************)
(* map, filter and reduce with a failing body.                             *)
(***************************************************************************)
\* C33: when an instruction of the body of a map, filter or reduce fails, the
\* stack is, after the operation, as the failing instruction left it, and the
\* program's error is the one that instruction recorded (the same operation
\* name and message).
C33_BodyErrorKept ==
    \A i \in 1..Len(sub.trace) :
        sub.trace[i].name \in {"map", "filter", "reduce"} =>
            \A k \in Nested(sub.trace, i) :
                sub.trace[k].raised =>
                    /\ sub.trace[i].stackAfter = sub.trace[k].stackAfter
                    /\ sub.trace[i].errorAfter = sub.trace[k].errorAfter
                    /\ sub.trace[i].msgAfter = sub.trace[k].msgAfter

(***************************************************************************)
(* Stack underflow.                                                        *)
(***************************************************************************)
\* the messages of an underflow of operation name that needs n values
UnderflowMessages(name, n) ==
    LET m == "stack underflow for " \o name \o ": expected " \o ToString(n) \o
             (IF n = 1 THEN " value" ELSE " values")
    IN  {m, "if error: " \o m, "sort error: " \o m,
         "slice error: stack underflow, expected at least 2 values (input, start)"}

\* entry e is the instruction o of Pops executed on a stack too short for it
Underflow(e, o) == e.name = o[1] /\ e.args = o[2] /\ Len(e.stackBefore) < o[3]

\* C34: an operation that pops operands and finds fewer values on the stack
\* than it needs records a stack-underflow error and leaves the stack
\* exactly as it was.
C34_UnderflowKeepsStack ==
    \A i \in 1..Len(sub.trace) : \A o \in Pops :
        Underflow(sub.trace[i], o) =>
            /\ sub.trace[i].stackAfter = sub.trace[i].stackBefore
            /\ sub.trace[i].errAfter
            /\ sub.trace[i].msgAfter \in UnderflowMessages(o[1], o[3])

\* every instruction of Pops has been executed on a stack too short for it,
\* here join on four values
C34_Witness ==
    \E i \in 1..Len(sub.trace) :
        /\ Underflow(sub.trace[i], <<"join", <<>>, 5>>)
        /\ Len(sub.trace[i].stackBefore) = 4
        /\ sub.trace[i].raised

(***************************************************************************)
(* The code of a program.                                                  *)
(***************************************************************************)
\* C35: executing instructions never changes the program's code: after any
\* sequence of run, step and undo, the code, the literal arguments of its
\* push instructions included, is that of the loaded program.
C35_CodeUnchanged ==
    \A i \in 1..Len(subs) : subs[i].Code = loaded.Code

(***************************************************************************)
(* step and undo with save_history.                                        *)
(***************************************************************************)
\* the step that made subs[i + 1] from subs[i] found save_history true and a
\* root frame, executed an instruction and pushed the program
Stepped(i) ==
    /\ i + 1 <= Len(subs)
    /\ (i + 1 = Len(subs)) => drv = "ok"
    /\ ops[i] = "step"
    /\ subs[i].SaveHistory
    /\ subs[i].CallStack # <<>>
    /\ subs[i + 1].trace # <<>>

\* field k of the serialized program p, Omitted if it has none
Serialized(p, k) == IF MapHas(Marshal(p).o, k) THEN MapGet(Marshal(p).o, k) ELSE Omitted

\* a and b agree, serialized, on stack, variables and error, and on the
\* current instruction path
SameState(a, b) ==
    /\ Serialized(a, "stack") = Serialized(b, "stack")
    /\ Serialized(a, "variables") = Serialized(b, "variables")
    /\ Serialized(a, "error") = Serialized(b, "error")
    /\ currentInstructionPath(a) = currentInstructionPath(b)

\* C36, for one step and one undo: with save_history true and the root frame there, a step that
\* executes an instruction appends exactly one history entry, and the undo
\* after it removes exactly one and gives back the stack, the variables, the
\* error and the current instruction path from before the step.
C36_StepUndo ==
    \A i \in 2..(Len(subs) - 1) :
        Stepped(i) =>
            /\ Len(subs[i + 1].History) = Len(subs[i].History) + 1
            /\ (i + 2 <= Len(subs) /\ ops[i + 1] = "undo") =>
                  /\ drv = "ok"
                  /\ Len(subs[i + 2].History) = Len(subs[i].History)
                  /\ SameState(subs[i + 2], subs[i])

(***************************************************************************)
(* step with nothing left to execute.                                      *)
(***************************************************************************)
\* program p has no code, or its current frame is exhausted
NothingLeft(p) ==
    \/ p.Code = <<>>
    \/ p.CallStack # <<>> /\ Last(p.CallStack).Ip = Len(Last(p.CallStack).Ops)

\* C37: step on a program without code, or with its current frame exhausted,
\* executes nothing: the program it leaves has, serialized, the stack,
\* variables, error, call_stack and history of the program it found, with
\* save_history as without.
C37_StepOnExhausted ==
    \A i \in 1..(Len(subs) - 1) :
        (ops[i] = "step" /\ NothingLeft(subs[i])) =>
            /\ subs[i + 1].trace = <<>>
            /\ (i + 1 = Len(subs)) => drv = "ok"
            /\ \A k \in {"stack", "variables", "error", "call_stack", "history"} :
                  Serialized(subs[i + 1], k) = Serialized(subs[i], k)

\* step has found an exhausted frame, and no code, with save_history
C37_Witness ==
    /\ Len(ops) = 3 /\ ops[3] = "step" /\ NothingLeft(subs[3])
    /\ subs[3].SaveHistory
    /\ subs[3].Code # <<>>
    /\ subs[3].Stack # <<>>

(***************************************************************************)
(* run after a breakpoint.                                                 *)
(***************************************************************************)
\* run has left program p halted at one of its breakpoints
HaltedAtBreakpoint(p) ==
    /\ p.Debug
    /\ p.CallStack # <<>>
    /\ p.Error = NoError
    /\ p.trace # <<>>
    /\ Last(p.trace).sig = "breakpoint"
    /\ \E i \in 1..Len(p.Breakpoints) : p.Breakpoints[i] = currentInstructionPath(p)

\* p has run to its end: no frame is left, or its last instruction was exit
Completed(p) == p.CallStack = <<>> \/ (p.trace # <<>> /\ Last(p.trace).sig = "exit")

\* C38: a program that run has left halted at a breakpoint path makes
\* progress when run again: the second run returns, having executed the
\* instruction at that path first, and, unless an instruction set an error,
\* it has driven the program to its end (the programs here have one
\* breakpoint and no loop that does not end).
C38_RunAfterBreakpoint ==
    (Len(ops) >= 2 /\ ops[1] = "run" /\ ops[2] = "run" /\ HaltedAtBreakpoint(subs[2])) =>
        /\ Len(ops) = 2 => drv = "ok"
        /\ \E k \in 1..Len(subs[3].trace) :
              /\ subs[3].trace[k].first = 1
              /\ subs[3].trace[k].path = currentInstructionPath(subs[2])
        /\ subs[3].Error = NoError => Completed(subs[3])

(***************************************************************************)
(* range.                                                                  *)
(***************************************************************************)
\* the numbers start, start + step, ... below stop, at most n of them
RECURSIVE ValuesBelow(_, _, _, _)
ValuesBelow(start, stop, step, n) ==
    IF n = 0 \/ ~RatLess(start, stop) THEN <<>>
    ELSE <<start>> \o ValuesBelow(RatAdd(start, step), stop, step, n - 1)

\* C40: push start, push stop, push step, range, run, terminates for all
\* numbers start, stop and step, step <= 0 included, with the error slot
\* empty and the finite array of the values start, start + step, ... that
\* are below stop (none of them when step <= 0 lets no end be reached) on
\* the stack.
C40_RangeTerminates ==
    \A x \in RangeOperands :
        (Executed(RangeCode(x[1], x[2], x[3])) /\ ops[1] = "run") =>
            /\ Len(ops) = 1 => drv = "ok"
            /\ first.Error = NoError
            /\ Len(first.Stack) = 1
            /\ first.Stack[1].t = "arr"
            /\ \E n \in 0..4 : first.Stack[1].a = ValuesBelow(x[1], x[2], x[3], n)

(***************************************************************************)
(* The diff engine on its own: a patch is created from two documents and   *)
(* applied to the first.  subs holds the two documents, then the patch,    *)
(* then what Apply returned; drv is "error" when Apply returned an error.  *)
(***************************************************************************)
\* the keys and the values of the documents compared
PatchKeys == {"a", "a/b"}

PatchValues ==
    {Null, Num(1), Arr(<<Null>>), Obj({}), Obj({<<"b", Num(1)>>}), Obj({<<"b", Null>>})}

\* the JSON objects over these keys and values
PatchDocuments ==
    {Obj({<<k, f[k]>> : k \in DOMAIN f}) :
        f \in UNION {[ks -> PatchValues] : ks \in SUBSET PatchKeys}}

InitPatch ==
    /\ \E a \in PatchDocuments, b \in PatchDocuments : subs = <<a, b>>
    /\ ops = <<>>
    /\ drv = "ok"
    /\ NoProcesses

\* CreatePatch(before, after)
CreatePatchOp ==
    /\ ops = <<>>
    /\ subs' = Append(subs, Arr(CreatePatch(subs[1], subs[2])))
    /\ ops' = <<"diff">>
    /\ UNCHANGED <<drv, pidCounter, programs, objs, actor>>

\* Patch.Apply(before)
ApplyOp ==
    /\ ops = <<"diff">>
    /\ subs' = Append(subs, Apply(subs[3].a, subs[1]).doc)
    /\ ops' = <<"diff", "apply">>
    /\ drv' = IF Apply(subs[3].a, subs[1]).ok THEN "ok" ELSE "error"
    /\ UNCHANGED procVars

NextPatch == CreatePatchOp \/ ApplyOp

SpecPatch == InitPatch /\ [][NextPatch]_vars

\* C25: for all JSON objects a and b, CreatePatch(a, b) applied to a
\* succeeds and yields b.
C25_PatchYieldsAfter ==
    ops = <<"diff", "apply">> => drv = "ok" /\ subs[4] = subs[2]

(***************************************************************************)
(* Processes: spawn, await, the process manager and the worker goroutines. *)
(* A program object is a *JispProgram; the thread executing it takes one   *)
(* step of its loop at a time.  spawn and await are executed as top-level  *)
(* instructions, in the steps in which they touch what other threads see.  *)
(***************************************************************************)
\* the longest code of the program given to main
MaxMainLen == 4

\* the most programs spawned in one run of the interpreter
MaxSpawns == 3

\* a *JispProgram on a stack: the live object, not a copy of it
Ptr(o) == Value("ptr", FALSE, o, "", <<>>, {})

\* a program object and its thread: pc is the place of the thread, done the
\* channel ("nil", "open", "closed"), child and pid the locals of spawnOp,
\* Register and awaitOp.  final and got are bookkeeping: the program as it was
\* when its Run returned, and the <<object, program>> pairs the awaits of this
\* thread returned, each program as it was when await pushed it.
Thread(prog, kind, pc) ==
    [prog |-> prog, kind |-> kind, pc |-> pc, done |-> "nil", child |-> 0, pid |-> 0,
     final |-> <<>>, got |-> <<>>]

\* json.Marshal of a value that may hold live programs
RECURSIVE MarshalLive(_)
MarshalLive(v) ==
    CASE v.t = "ptr" ->
            LET p == objs[v.n].prog
            IN  Marshal([p EXCEPT !.Stack = [i \in 1..Len(@) |-> MarshalLive(@[i])],
                                  !.Variables = {<<kv[1], MarshalLive(kv[2])>> : kv \in @}])
      [] v.t = "arr" -> Arr([i \in 1..Len(v.a) |-> MarshalLive(v.a[i])])
      [] v.t = "obj" -> Obj({<<kv[1], MarshalLive(kv[2])>> : kv \in v.o})
      [] OTHER -> v

\* ProcessManager.Get
Get(pid) ==
    IF \E e \in programs : e[1] = pid
    THEN <<TRUE, (CHOOSE e \in programs : e[1] = pid)[2]>>
    ELSE <<FALSE, 0>>

\* the documents that get spawned: a program that pushes twice, and one that
\* spawns and awaits a program of its own
Leaf == Obj({<<"code", Arr(<<Instr("push", <<Num(1)>>), Instr("push", <<Num(2)>>)>>)>>})

Mid == Obj({<<"code", Arr(<<Instr("push", <<Leaf>>), Instr("spawn", <<>>), Instr("await", <<>>)>>)>>})

ProcMenu ==
    {Instr("push", <<Leaf>>), Instr("push", <<Mid>>), Instr("spawn", <<>>), Instr("await", <<>>)}

\* a program that awaits the program registered under a PID, by a handle it
\* writes itself: a document with that PID
Awaits(pid) ==
    Obj({<<"code", Arr(<<Instr("push", <<Obj({<<"pid", Num(pid)>>})>>), Instr("await", <<>>),
                         Instr("push", <<Num(1)>>)>>)>>})

\* main spawns a program that awaits the first PID, its own, and awaits it;
\* main spawns two programs, each awaiting the PID of the other
AwaitingCodes ==
    {<<Instr("push", <<Awaits(1)>>), Instr("spawn", <<>>), Instr("await", <<>>)>>,
     <<Instr("push", <<Awaits(2)>>), Instr("spawn", <<>>),
       Instr("push", <<Awaits(1)>>), Instr("spawn", <<>>)>>}

MainCodes == UNION {[1..n -> ProcMenu] : n \in 1..MaxMainLen} \cup AwaitingCodes

\* main has exited or a goroutine has panicked: the process is gone
Alive == objs[1].pc # "exit" /\ \A o \in 1..Len(objs) : objs[o].pc # "panic"

\* the thread of o is at the head of its loop with an instruction to execute
AtInstruction(o) ==
    /\ Alive
    /\ objs[o].pc = "run"
    /\ objs[o].prog.CallStack # <<>>
    /\ Last(objs[o].prog.CallStack).Ip < Len(Last(objs[o].prog.CallStack).Ops)
    /\ objs[o].prog.Error = NoError

popFrame(p) == [p EXCEPT !.CallStack = Front(@)]

\* the thread of o leaves its loop: Run returns in a worker, ExecuteFrame
\* (which pops its frame) in main
Leave(t, p) ==
    IF t.kind = "main" THEN [t EXCEPT !.prog = popFrame(p), !.pc = "exit"]
    ELSE [t EXCEPT !.prog = p, !.pc = "exit", !.final = <<p>>]

\* what the loop does with the return of executeSingleInstruction
Settle(t, r) ==
    CASE r.sig \in Unwinding -> [t EXCEPT !.prog = r.p, !.pc = r.sig]
      [] r.sig = "ok" -> [t EXCEPT !.prog = r.p, !.pc = "run"]
      [] r.sig = "return" /\ t.kind = "worker" -> [t EXCEPT !.prog = popFrame(r.p), !.pc = "run"]
      [] OTHER -> Leave(t, r.p)

\* the step of thread o leaves it as t
Becomes(o, t) ==
    /\ objs' = [objs EXCEPT ![o] = t]
    /\ actor' = o
    /\ UNCHANGED <<pidCounter, programs, driverVars>>

\* the start of Run in a worker, of ExecuteFrame in main: the root frame
Begin(o) ==
    /\ Alive
    /\ objs[o].pc = "start"
    /\ LET t == objs[o]
            p == t.prog
       IN  IF t.kind = "main" /\ p.Error # NoError THEN Becomes(o, [t EXCEPT !.pc = "exit"])
           ELSE IF p.CallStack # <<>> /\ t.kind = "worker" THEN Becomes(o, [t EXCEPT !.pc = "run"])
           ELSE IF Len(p.Code) = 0
           THEN Becomes(o, [Leave(t, p) EXCEPT !.prog = p])
           ELSE Becomes(o, [t EXCEPT !.prog.CallStack = Append(@, rootFrame(p)), !.pc = "run"])

\* the head of the loop when there is nothing to execute: a finished frame
\* is popped, and the loop ends on an empty call stack or a set error
LoopEnd(o) ==
    /\ Alive
    /\ objs[o].pc = "run"
    /\ ~AtInstruction(o)
    /\ LET t == objs[o]
            p == t.prog
       IN  IF t.kind = "main" \/ p.CallStack = <<>> THEN Becomes(o, Leave(t, p))
           ELSE IF Last(p.CallStack).Ip >= Len(Last(p.CallStack).Ops)
           THEN Becomes(o, [t EXCEPT !.prog = popFrame(p)])
           ELSE Becomes(o, Leave(t, p))

\* one instruction other than spawn and await
Exec(o) ==
    /\ AtInstruction(o)
    /\ currentOp(objs[o].prog).Name \notin {"spawn", "await"}
    /\ Becomes(o, Settle(objs[o], executeSingleInstruction(objs[o].prog)))

\* the handler of the current instruction of o returned the error msg
HandlerFails(o, p, msg) ==
    Becomes(o, Settle(objs[o], afterHandler(objs[o].prog, currentOp(objs[o].prog), Fail(p, msg))))

\* spawnOp up to the call of Register: the sub-program is popped, marshalled
\* and parsed into a new object, with its done channel and running flag
SpawnBegin(o) ==
    /\ AtInstruction(o)
    /\ currentOp(objs[o].prog).Name = "spawn"
    /\ Len(objs) <= MaxSpawns
    /\ LET t == objs[o]
            op == currentOp(t.prog)
            r == popValue(t.prog, "stack underflow for spawn: expected 1 value")
       IN  IF Len(op.Args) # 0 THEN HandlerFails(o, t.prog, "spawn error: expected 0 arguments")
           ELSE IF r.sig # "ok" THEN HandlerFails(o, r.p, r.msg)
           ELSE IF MarshalLive(r.val).t # "obj"
           THEN HandlerFails(o, r.p, "spawn error: could not reconstruct sub-program from stack value")
           ELSE LET subProgram == [jispProgramFromBytes(MarshalLive(r.val)) EXCEPT !.Running = TRUE]
                    c == Len(objs) + 1
                IN  /\ objs' = Append([objs EXCEPT ![o] = [t EXCEPT !.prog = r.p, !.pc = "register",
                                                                   !.child = c]],
                                       [Thread(subProgram, "worker", "new") EXCEPT !.done = "open"])
                    /\ actor' = o
                    /\ UNCHANGED <<pidCounter, programs, driverVars>>

\* Register reading the counter without incrementing it
RegisterPidNoIncrement(o) ==
    /\ Alive
    /\ objs[o].pc = "register"
    /\ pidCounter' = IF pidCounter = 0 THEN 1 ELSE pidCounter
    /\ objs' = [objs EXCEPT ![o].pid = pidCounter', ![o].pc = "insert"]
    /\ actor' = o
    /\ UNCHANGED <<programs, driverVars>>

\* Register, the section under pidMutex: the counter is incremented and read
RegisterPid(o) ==
    /\ Alive
    /\ objs[o].pc = "register"
    /\ pidCounter' = pidCounter + 1
    /\ objs' = [objs EXCEPT ![o].pid = pidCounter + 1, ![o].pc = "insert"]
    /\ actor' = o
    /\ UNCHANGED <<programs, driverVars>>

\* Register, the rest: the program gets its PID and enters the table
RegisterIns(o) ==
    /\ Alive
    /\ objs[o].pc = "insert"
    /\ programs' = {e \in programs : e[1] # objs[o].pid} \cup {<<objs[o].pid, objs[o].child>>}
    /\ objs' = [objs EXCEPT ![objs[o].child].prog.PID = objs[o].pid, ![o].pc = "push"]
    /\ actor' = o
    /\ UNCHANGED <<pidCounter, driverVars>>

\* spawnOp after Register: the program object itself is pushed, the goroutine
\* is started, and the instruction ends
SpawnEnd(o) ==
    /\ Alive
    /\ objs[o].pc = "push"
    /\ LET t == objs[o]
            c == t.child
            r == afterHandler(t.prog, currentOp(t.prog), Ok(Push(t.prog, Ptr(c))))
       IN  /\ objs' = [objs EXCEPT ![o] = [Settle(t, r) EXCEPT !.child = 0, !.pid = 0],
                                    ![c].pc = "start"]
           /\ actor' = o
           /\ UNCHANGED <<pidCounter, programs, driverVars>>

\* the PID await reads from the value it popped: of the object itself when
\* the value is a *JispProgram, of the parsed copy when it is a document
HandlePID(v) ==
    IF v.t = "ptr" THEN objs[v.n].prog.PID ELSE jispProgramFromBytes(v).PID

\* awaitOp up to the receive from done: the handle is popped and the
\* canonical program looked up by its PID
AwaitBegin(o) ==
    /\ AtInstruction(o)
    /\ currentOp(objs[o].prog).Name = "await"
    /\ LET t == objs[o]
            op == currentOp(t.prog)
            r == popValue(t.prog, "stack underflow for await: expected 1 value")
       IN  IF Len(op.Args) # 0 THEN HandlerFails(o, t.prog, "await error: expected 0 arguments")
           ELSE IF r.sig # "ok" THEN HandlerFails(o, r.p, r.msg)
           ELSE IF r.val.t \notin {"ptr", "obj"}
           THEN HandlerFails(o, r.p, "await error: could not reconstruct sub-program handle")
           ELSE IF HandlePID(r.val) = 0
           THEN HandlerFails(o, r.p, "await error: program object on stack has no PID")
           ELSE IF ~Get(HandlePID(r.val))[1]
           THEN HandlerFails(o, r.p, "await error: no running program found for PID")
           ELSE Becomes(o, [t EXCEPT !.prog = r.p, !.pc = "wait",
                                     !.child = Get(HandlePID(r.val))[2]])

\* a receive that returns at once, as from a channel nobody waits on
ReceivedAtOnce(ch) == ch \in {"open", "closed"}

\* the receive from a channel returns once the channel is closed
Received(ch) == ch = "closed"

\* awaitOp from the receive on: the canonical program is pushed
AwaitEnd(o) ==
    /\ Alive
    /\ objs[o].pc = "wait"
    /\ objs[objs[o].child].done # "nil" => Received(objs[objs[o].child].done)
    /\ LET t == objs[o]
            c == t.child
            r == afterHandler(t.prog, currentOp(t.prog), Ok(Push(t.prog, Ptr(c))))
       IN  Becomes(o, [Settle(t, r) EXCEPT !.child = 0,
                                           !.got = Append(@, <<c, objs[c].prog>>)])

\* the deferred function of the goroutine, first half: running is cleared
WorkerUnflag(o) ==
    /\ Alive
    /\ objs[o].kind = "worker"
    /\ objs[o].pc = "exit"
    /\ Becomes(o, [objs[o] EXCEPT !.prog.Running = FALSE, !.pc = "unflag"])

\* the deferred function, second half: done is closed
WorkerClose(o) ==
    /\ Alive
    /\ objs[o].pc = "unflag"
    /\ Becomes(o, [objs[o] EXCEPT !.done = "closed", !.pc = "done"])

InitProc ==
    /\ \E c \in MainCodes :
          objs = <<Thread(NewProgram(parseJispOps(Arr(c)), <<>>, EmptyMap, FALSE, FALSE, <<>>),
                          "main", "start")>>
    /\ pidCounter = 0
    /\ programs = {}
    /\ actor = 0
    /\ subs = <<>>
    /\ ops = <<>>
    /\ drv = "ok"

NextProc ==
    \E o \in 1..Len(objs) :
        \/ Begin(o)
        \/ LoopEnd(o)
        \/ Exec(o)
        \/ SpawnBegin(o)
        \/ RegisterPid(o)
        \/ RegisterIns(o)
        \/ SpawnEnd(o)
        \/ AwaitBegin(o)
        \/ AwaitEnd(o)
        \/ WorkerUnflag(o)
        \/ WorkerClose(o)

SpecProc == InitProc /\ [][NextProc]_vars

\* the spawned program objects
Workers == 2..Len(objs)

\* the thread of o is blocked in await: it waits for a done channel that is
\* not closed
Blocked(o) ==
    /\ objs[o].pc = "wait"
    /\ objs[objs[o].child].done = "open"

\* the program reached from o by following n awaits of blocked threads, 0 if
\* there is none
RECURSIVE Awaited(_, _)
Awaited(o, n) ==
    IF n = 0 THEN o
    ELSE IF Blocked(o) THEN Awaited(objs[o].child, n - 1)
    ELSE 0

\* C39: await cannot deadlock: in no reachable state is there a cycle of
\* programs each blocked in await on the next program of the cycle (a
\* program awaiting itself included).
C39_NoAwaitCycle ==
    \A o \in 1..Len(objs) : \A n \in 1..Len(objs) : Awaited(o, n) # o

\* C6: await returns only after the worker of the awaited program has
\* finished; the program it pushes is the state in which that worker's Run
\* ended, with the running flag false, and nothing changes it afterwards.
C6_AwaitReturnsFinalState ==
    \A o \in 1..Len(objs) : \A i \in 1..Len(objs[o].got) :
        LET c == objs[o].got[i][1]
            pushed == objs[o].got[i][2]
        IN  /\ objs[c].pc = "done"
            /\ objs[c].final # <<>>
            /\ pushed = [objs[c].final[1] EXCEPT !.Running = FALSE]
            /\ ~pushed.Running
            /\ objs[c].prog = pushed

\* an await has returned a program whose worker executed instructions
C6_Witness ==
    \E o \in 1..Len(objs) : \E i \in 1..Len(objs[o].got) :
        /\ Len(objs[o].got[i][2].Stack) > 0
        /\ Last(objs[o].prog.Stack) = Ptr(objs[o].got[i][1])

\* what is reachable from the stack and the variables of program o, as
\* json.Marshal shows it
Reachable(o) ==
    <<[i \in 1..Len(objs[o].prog.Stack) |-> MarshalLive(objs[o].prog.Stack[i])],
      {<<kv[1], MarshalLive(kv[2])>> : kv \in objs[o].prog.Variables}>>

\* C7: a spawned program shares no memory with its spawner: a step of a
\* spawned program changes nothing that is reachable from the stack or the
\* variables of another program, and a started program is changed by the
\* steps of its own thread only.
C7_NoSharedMemory ==
    [][\A c \in Workers : objs[c].pc # "new" =>
          /\ objs'[c].prog # objs[c].prog => actor' = c
          /\ actor' = c => \A o \in 1..Len(objs) : o # c => Reachable(o)' = Reachable(o)]_vars

\* the spawns that have got through Register
Registered ==
    {c \in Workers : objs[c].pc # "new" \/ \E o \in 1..Len(objs) :
                                              objs[o].pc = "push" /\ objs[o].child = c}

\* the PIDs allocated by a Register that has not yet stored its program
InFlight == {o \in 1..Len(objs) : objs[o].pc = "insert"}

\* C8: every spawn, also when programs spawn concurrently, registers its
\* program under a PID no other spawned program has or has had (the table
\* only grows and a PID once given is never given again), and the lookup of
\* that PID returns that program.
C8_UniquePids ==
    /\ \A c \in Registered : Get(objs[c].prog.PID) = <<TRUE, c>>
    /\ \A c, d \in Registered : objs[c].prog.PID = objs[d].prog.PID => c = d
    /\ \A e \in programs : e[1] \in 1..pidCounter /\ e[2] \in Registered
    /\ \A o \in InFlight :
          /\ objs[o].pid \in 1..pidCounter
          /\ ~Get(objs[o].pid)[1]
          /\ \A q \in InFlight : objs[q].pid = objs[o].pid => q = o

\* two programs are inside Register at once, each with its PID allocated
C8_Witness ==
    /\ Cardinality(InFlight) >= 2
    /\ Cardinality(Registered) >= 1

====
